---- MODULE Spec2Model ----
(***************************************************************************)
(* Layout and navigation core of termilyon (src/src/main.rs).              *)
(*                                                                         *)
(* The program keeps its layout in the toolkit's widget graph: a Notebook  *)
(* whose pages are Boxes; each Box holds one pane tree made of Paned       *)
(* widgets (the Splits) and ScrolledWindows (the Leaves, each holding one  *)
(* terminal).  The model keeps that graph as the code sees it: every       *)
(* widget has an identity, a parent link, and a Paned has a start and an   *)
(* end link.  A ScrolledWindow and the Terminal inside it are one widget   *)
(* of kind "Scrolled" here (they are created together, line 691-692, and   *)
(* never separated).                                                       *)
(*                                                                         *)
(* Every handler runs to completion on the toolkit's main loop, so each    *)
(* event is one action.  The state of an action's end is the state when    *)
(* the handler returns.                                                    *)
(***************************************************************************)
EXTENDS Naturals, Integers, Sequences, FiniteSets, TLC

\* Number of widget-creating events (new tab, split) a behaviour may hold.
MaxCreate == 3
\* The largest tab-switch index a behaviour tries.
MaxSwitchIndex == 4
\* Number of widget-creating events a behaviour of key events may hold.
MaxKeyCreate == 2
\* Number of widget-creating events a behaviour that keeps detached widgets may hold.
MaxStaleCreate == 2

Nil == 0
WindowId == 1
NotebookId == 2
\* Every creating event makes two widgets; build_ui makes the first tab.
MaxId == 2 + 2 * (MaxCreate + 1)
Ids == 1..MaxId

Horizontal == "Horizontal"
Vertical == "Vertical"
Orientations == {Horizontal, Vertical}
FocusDirection == {"Left", "Right", "Up", "Down"}
\* default_keybindings builds nine tab-switch bindings, indices 0..8.
TabSwitchCount == 9

VARIABLES
    kind,          \* widget -> "None" (not created) | "Window" | "Notebook" | "Box" | "Paned" | "Scrolled"
    parent,        \* widget -> its parent widget, Nil when it has none
    start_child,   \* Paned -> its start child or Nil
    end_child,     \* Paned -> its end child or Nil
    orientation,   \* Paned -> its orientation
    box_children,  \* Box -> the sequence of its children
    pages,         \* the Notebook's pages (Boxes), in order
    current,       \* the Notebook's current page index, -1 when it has no page
    focus,         \* the terminal holding the window's focus, Nil when no pane holds it
    open,          \* the application window has not been closed
    next_id,       \* the identity the next created widget gets
    tab_counter,   \* build_ui's tab_counter
    tab_label,     \* page (Box) -> the tab_index its label text was formatted with, 0 for other widgets
    config_file,   \* the [keybindings] table of the configuration file: command -> chord text
    keybindings,   \* Config.keybindings: the bindings in force
    propagation,   \* what the key handler returned for the last key event ("-" before any)
    exited,        \* the terminals whose child process has exited
    keep_detached, \* the widgets that left the window are kept, with the links they have
    terminal_of,   \* ScrolledWindow -> the scrollback, font and colours of its Terminal
    tab_text,      \* page (Box) -> the text of its tab's Label, as the sequence of its characters
    dialog,        \* the open Rename Tab dialog, << >> when none: the page whose Label it
                   \* holds and the text of its Entry
    config,        \* the Config in force: the fields the terminals and the tab labels take
    env,           \* the --theme-file argument, the configuration file and the theme files
    last,          \* the last event handled, with what it acted on
    snap           \* the layout before the last split event, <<>> after any other

vars == << kind, parent, start_child, end_child, orientation, box_children,
           pages, current, focus, open, next_id, tab_counter, tab_label,
           config_file, keybindings, propagation, exited, keep_detached,
           terminal_of, tab_text, dialog, config, env, last, snap >>

\* The program state a handler works on, as one value.
S == [ kind |-> kind, parent |-> parent, start_child |-> start_child,
       end_child |-> end_child, orientation |-> orientation,
       box_children |-> box_children, pages |-> pages, current |-> current,
       focus |-> focus, open |-> open, next_id |-> next_id,
       tab_counter |-> tab_counter, tab_label |-> tab_label ]

(***************************************************************************)
(* The configuration, the themes and the settings of a terminal.           *)
(***************************************************************************)

\* the value of a hex digit, 16 for any other character
HexDigits ==
    << "0", "1", "2", "3", "4", "5", "6", "7", "8", "9", "a", "b", "c", "d", "e", "f" >>
hex_digit(c) ==
    IF \E i \in DOMAIN HexDigits : HexDigits[i] = c
    THEN (CHOOSE i \in DOMAIN HexDigits : HexDigits[i] = c) - 1
    ELSE 16

\* u8::from_str_radix(two characters, 16).unwrap_or(0)
from_str_radix(a, b) ==
    IF hex_digit(a) = 16 \/ hex_digit(b) = 16 THEN 0
    ELSE 16 * hex_digit(a) + hex_digit(b)

RECURSIVE trim_start_matches(_, _)
\* str::trim_start_matches on a text given as the sequence of its characters
trim_start_matches(text, c) ==
    IF text # << >> /\ Head(text) = c THEN trim_start_matches(Tail(text), c) ELSE text

\* rgba: the colour of a hex text as << red, green, blue >> out of 255 (its
\* alpha is 1.0 always); black for a text that has not six characters
rgba(text) ==
    LET hex == trim_start_matches(text, "#")
    IN IF Len(hex) = 6
       THEN << from_str_radix(hex[1], hex[2]), from_str_radix(hex[3], hex[4]),
               from_str_radix(hex[5], hex[6]) >>
       ELSE << 0, 0, 0 >>

\* the number of colours of a palette
PaletteLen == 16

\* parse_palette taking a palette of any length, cut or filled with black
parse_palette_any_len(values) ==
    << [i \in 1..PaletteLen |-> IF i <= Len(values) THEN rgba(values[i]) ELSE << 0, 0, 0 >>] >>

\* parse_palette: << the sixteen colours >>, << >> for another number of texts
parse_palette(values) ==
    IF Len(values) # PaletteLen THEN << >>
    ELSE << [i \in 1..PaletteLen |-> rgba(values[i])] >>

\* theme_from_file: << Theme >> of the contents of the file at path, << >>
\* when it cannot be read or parsed or its palette is refused; the tab_*
\* colours of a Theme go to the style of the tab bar only
theme_from_file(e, path) ==
    LET contents == e.themes[path]
    IN IF contents = << >> THEN << >>
       ELSE LET raw == contents[1]
                palette == parse_palette(raw.palette)
            IN IF palette = << >> THEN << >>
               ELSE << [ background |-> rgba(raw.background),
                         foreground |-> rgba(raw.foreground),
                         cursor |-> rgba(raw.cursor),
                         palette |-> palette[1] ] >>

\* apply_theme: set_colors and set_color_cursor
apply_theme(t, theme) ==
    [t EXCEPT !.foreground = theme.foreground, !.background = theme.background,
              !.palette = theme.palette, !.cursor = theme.cursor]

\* pango::SCALE
SCALE == 1024

\* pango::FontDescription::from_string for the font texts of the model: the
\* family, and the size a trailing number gives
from_string(font) ==
    IF font = "Fira Code 12" THEN [family |-> "Fira Code", size |-> 12 * SCALE]
    ELSE IF font = "Mono 10" THEN [family |-> "Mono", size |-> 10 * SCALE]
    ELSE [family |-> font, size |-> 0]

\* the font description create_terminal_widget and apply_config_to_terminals build
font_desc(c) ==
    IF c.font_size > 0
    THEN [from_string(c.font) EXCEPT !.size = c.font_size * SCALE]
    ELSE from_string(c.font)

\* Terminal::new(): the colours are the terminal's own until a theme is applied
NewTerminal ==
    [ scrollback_lines |-> 0, font |-> [family |-> "", size |-> 0],
      foreground |-> << >>, background |-> << >>, palette |-> << >>, cursor |-> << >> ]

\* what stands for the Terminal of a widget that is no ScrolledWindow
NoTerminal == [NewTerminal EXCEPT !.scrollback_lines = -1]

\* set_scrollback_lines and set_font, as create_terminal_widget and
\* apply_config_to_terminals call them
apply_config(t, c) ==
    [t EXCEPT !.scrollback_lines = c.scrollback_lines, !.font = font_desc(c)]

\* create_terminal_widget: the settings of the Terminal it makes
create_terminal(c, e) ==
    LET t == apply_config(NewTerminal, c)
        theme == IF c.theme_file = << >> THEN << >>
                 ELSE theme_from_file(e, c.theme_file[1])
    IN IF theme # << >> THEN apply_theme(t, theme[1]) ELSE t

RECURSIVE to_string(_)
\* u32::to_string, as format! writes a tab_index: its decimal digits
to_string(n) ==
    IF n < 10 THEN << HexDigits[n + 1] >>
    ELSE to_string(n \div 10) \o << HexDigits[(n % 10) + 1] >>

\* create_tab: label_text, format!("{} {}", tab_title, tab_index)
label_text(tab_title, tab_index) == tab_title \o << " " >> \o to_string(tab_index)

\* Config::load for the fields the terminals and the tab labels take: the
\* defaults, with what the configuration file gives over them
load_config(e) ==
    LET defaults == [ scrollback_lines |-> 10000, font |-> "Fira Code 12",
                      font_size |-> 12,
                      tab_title |-> << "T", "e", "r", "m", "i", "n", "a", "l" >>,
                      theme_file |-> << >> ]
    IN IF e.config_toml = << >> THEN defaults
       ELSE LET raw == e.config_toml[1]
            IN [ scrollback_lines |-> IF raw.scrollback_lines # << >>
                                      THEN raw.scrollback_lines[1]
                                      ELSE defaults.scrollback_lines,
                 font |-> IF raw.font # << >> THEN raw.font[1] ELSE defaults.font,
                 font_size |-> IF raw.font_size # << >> THEN raw.font_size[1]
                               ELSE defaults.font_size,
                 tab_title |-> IF raw.tab_title # << >> THEN raw.tab_title[1]
                               ELSE defaults.tab_title,
                 theme_file |-> raw.theme_file ]

\* the theme_override of build_ui and reload_config_and_theme over a Config
with_theme_override(c, e) ==
    IF e.theme_override # << >> THEN [c EXCEPT !.theme_file = e.theme_override] ELSE c

(***************************************************************************)
(* The toolkit calls the handlers make.                                    *)
(***************************************************************************)

RECURSIVE IsAncestorOrSelf(_, _, _)
\* a is x or an ancestor of x
IsAncestorOrSelf(s, a, x) ==
    IF x = Nil THEN FALSE
    ELSE IF x = a THEN TRUE
    ELSE IsAncestorOrSelf(s, a, s.parent[x])

\* widget.root(): the window, when the widget's ancestors lead to it
find_root_window(s, w) ==
    IF w # Nil /\ IsAncestorOrSelf(s, WindowId, w) THEN WindowId ELSE Nil

\* The widgets of the window: those whose ancestors lead to it.
InWindow(s) == {i \in Ids : find_root_window(s, i) # Nil}

\* A widget that has left the window is reached by no handler again: every
\* search starts from the window's focus, from the Notebook's pages or from
\* a widget's parent.  The model forgets such widgets when a handler returns,
\* unless keep_detached: the child_exited handler of a terminal holds its
\* ScrolledWindow and can run after the pane has left the window.
Forget(s, live) ==
    [s EXCEPT
       !.kind = [i \in Ids |-> IF i \in live THEN s.kind[i] ELSE "None"],
       !.parent = [i \in Ids |-> IF i \in live THEN s.parent[i] ELSE Nil],
       !.start_child = [i \in Ids |-> IF i \in live THEN s.start_child[i] ELSE Nil],
       !.end_child = [i \in Ids |-> IF i \in live THEN s.end_child[i] ELSE Nil],
       !.orientation = [i \in Ids |-> IF i \in live THEN s.orientation[i] ELSE "-"],
       !.box_children = [i \in Ids |-> IF i \in live THEN s.box_children[i] ELSE <<>>],
       !.tab_label = [i \in Ids |-> IF i \in live THEN s.tab_label[i] ELSE 0]]

\* The handler's result r becomes the next state; ex are the terminals whose
\* child process has exited, base the settings of the terminals there were.
\* A ScrolledWindow the handler made has the Terminal create_terminal_widget
\* gave it, a Box the handler made has the label text create_tab gave its tab.
CommitWith(r, ex, base) ==
    \E live \in {IF keep_detached THEN Ids ELSE InWindow(r)} :
    \E s \in {Forget(r, live)} :
       /\ kind' = s.kind
       /\ parent' = s.parent
       /\ start_child' = s.start_child
       /\ end_child' = s.end_child
       /\ orientation' = s.orientation
       /\ box_children' = s.box_children
       /\ pages' = s.pages
       /\ current' = s.current
       /\ focus' = s.focus
       /\ open' = s.open
       /\ next_id' = s.next_id
       /\ tab_counter' = s.tab_counter
       /\ tab_label' = s.tab_label
       /\ exited' = ex \cap live
       /\ keep_detached' = keep_detached
       /\ terminal_of' =
             [i \in Ids |->
                 IF i \notin live \/ s.kind[i] # "Scrolled" THEN NoTerminal
                 ELSE IF kind[i] # "Scrolled" THEN create_terminal(config, env)
                 ELSE base[i]]
       /\ tab_text' =
             [i \in Ids |->
                 IF i \notin live \/ s.kind[i] # "Box" THEN << >>
                 ELSE IF kind[i] # "Box" THEN label_text(config.tab_title, s.tab_label[i])
                 ELSE tab_text[i]]

Commit(r, ex) == CommitWith(r, ex, terminal_of)

\* A widget leaves its parent: its parent link is cleared, and a focus that
\* was in it is no longer the window's focus.
Unparent(s, c) ==
    [s EXCEPT !.parent[c] = Nil,
              !.focus = IF s.focus # Nil /\ IsAncestorOrSelf(s, c, s.focus)
                        THEN Nil ELSE s.focus]

SeqRemove(q, x) == SelectSeq(q, LAMBDA y : y # x)

\* paned.set_start_child(c): the old start child is unparented, c (when
\* present and without a parent) becomes the start child
PanedSetStartChild(s, p, c) ==
    IF s.start_child[p] = c THEN s
    ELSE IF c # Nil /\ s.parent[c] # Nil THEN s
    ELSE LET s1 == IF s.start_child[p] # Nil
                   THEN Unparent(s, s.start_child[p]) ELSE s
             s2 == [s1 EXCEPT !.start_child[p] = c]
         IN IF c # Nil THEN [s2 EXCEPT !.parent[c] = p] ELSE s2

\* paned.set_end_child(c)
PanedSetEndChild(s, p, c) ==
    IF s.end_child[p] = c THEN s
    ELSE IF c # Nil /\ s.parent[c] # Nil THEN s
    ELSE LET s1 == IF s.end_child[p] # Nil
                   THEN Unparent(s, s.end_child[p]) ELSE s
             s2 == [s1 EXCEPT !.end_child[p] = c]
         IN IF c # Nil THEN [s2 EXCEPT !.parent[c] = p] ELSE s2

\* container.remove(c)
BoxRemove(s, b, c) ==
    IF s.parent[c] # b THEN s
    ELSE [Unparent(s, c) EXCEPT !.box_children[b] = SeqRemove(s.box_children[b], c)]

\* container.append(c)
BoxAppend(s, b, c) ==
    IF s.parent[c] # Nil THEN s
    ELSE [s EXCEPT !.box_children[b] = Append(s.box_children[b], c),
                   !.parent[c] = b]

\* widget.grab_focus(): a widget outside the window cannot take the focus
GrabFocus(s, t) ==
    IF find_root_window(s, t) # Nil THEN [s EXCEPT !.focus = t] ELSE s

\* widget.first_child() of a Box
BoxFirstChild(s, b) ==
    IF Len(s.box_children[b]) > 0 THEN s.box_children[b][1] ELSE Nil

\* notebook.n_pages()
n_pages(s) == Len(s.pages)

\* notebook.nth_page(Some(i))
nth_page(s, i) == IF i >= 0 /\ i < Len(s.pages) THEN s.pages[i + 1] ELSE Nil

\* notebook.page_num(child): the index of the page, -1 when it is none
page_num(s, b) ==
    IF \E i \in 1..Len(s.pages) : s.pages[i] = b
    THEN (CHOOSE i \in 1..Len(s.pages) : s.pages[i] = b) - 1
    ELSE -1

(***************************************************************************)
(* Searches of the widget graph.                                           *)
(***************************************************************************)

RECURSIVE find_terminal_in_widget(_, _)
RECURSIVE FirstTerminalAmong(_, _)
\* the first widget of the sequence q in which a terminal is found
FirstTerminalAmong(s, q) ==
    IF q = <<>> THEN Nil
    ELSE LET t == find_terminal_in_widget(s, Head(q))
         IN IF t # Nil THEN t ELSE FirstTerminalAmong(s, Tail(q))

\* find_terminal_in_widget that looks under a Paned's end child first
find_terminal_end_first(s, w) ==
    IF w = Nil THEN Nil
    ELSE IF s.kind[w] = "Scrolled" THEN w
    ELSE IF s.kind[w] = "Paned" THEN
        LET a == find_terminal_in_widget(s, s.end_child[w])
        IN IF a # Nil THEN a
           ELSE find_terminal_in_widget(s, s.start_child[w])
    ELSE IF s.kind[w] = "Box" THEN FirstTerminalAmong(s, s.box_children[w])
    ELSE IF s.kind[w] = "Notebook" THEN FirstTerminalAmong(s, s.pages)
    ELSE IF s.kind[w] = "Window" THEN find_terminal_in_widget(s, NotebookId)
    ELSE Nil

\* find_terminal_in_widget: the terminal itself, the terminal of a
\* ScrolledWindow, the first terminal under a Paned's start child and then
\* under its end child, otherwise the first one under any child in order.
find_terminal_in_widget(s, w) ==
    IF w = Nil THEN Nil
    ELSE IF s.kind[w] = "Scrolled" THEN w
    ELSE IF s.kind[w] = "Paned" THEN
        LET a == find_terminal_in_widget(s, s.start_child[w])
        IN IF a # Nil THEN a
           ELSE find_terminal_in_widget(s, s.end_child[w])
    ELSE IF s.kind[w] = "Box" THEN FirstTerminalAmong(s, s.box_children[w])
    ELSE IF s.kind[w] = "Notebook" THEN FirstTerminalAmong(s, s.pages)
    ELSE IF s.kind[w] = "Window" THEN find_terminal_in_widget(s, NotebookId)
    ELSE Nil

RECURSIVE find_scrolled_ancestor(_, _)
\* find_scrolled_ancestor: the widget or its nearest ancestor that is a ScrolledWindow
find_scrolled_ancestor(s, w) ==
    IF w = Nil THEN Nil
    ELSE IF s.kind[w] = "Scrolled" THEN w
    ELSE find_scrolled_ancestor(s, s.parent[w])

RECURSIVE find_parent_notebook(_, _)
\* find_parent_notebook: the nearest proper ancestor that is a Notebook
find_parent_notebook(s, w) ==
    LET p == IF w = Nil THEN Nil ELSE s.parent[w]
    IN IF p = Nil THEN Nil
       ELSE IF s.kind[p] = "Notebook" THEN p
       ELSE find_parent_notebook(s, p)

\* the orientation a direction needs (lines 520-523)
target_orientation(direction) ==
    IF direction \in {"Left", "Right"} THEN Horizontal ELSE Vertical

\* the match of lines 531-537 with the guards of Left and Up testing the
\* start child
AdjacentSiblingSameGuard(s, paned, cur, direction) ==
    IF s.start_child[paned] = cur THEN s.end_child[paned] ELSE Nil

\* the match of lines 531-537: the other child of the Paned, when current is
\* the child the direction departs from
AdjacentSibling(s, paned, cur, direction) ==
    IF direction \in {"Left", "Up"}
    THEN (IF s.end_child[paned] = cur THEN s.start_child[paned] ELSE Nil)
    ELSE (IF s.start_child[paned] = cur THEN s.end_child[paned] ELSE Nil)

RECURSIVE find_adjacent_nearest_only(_, _, _)
\* the loop of find_adjacent_terminal giving up at the first Paned of the
\* direction's axis
find_adjacent_nearest_only(s, cur, direction) ==
    LET p == s.parent[cur]
    IN IF p = Nil THEN Nil
       ELSE IF s.kind[p] = "Paned"
               /\ s.orientation[p] = target_orientation(direction)
            THEN find_terminal_in_widget(s, AdjacentSibling(s, p, cur, direction))
       ELSE find_adjacent_nearest_only(s, p, direction)

RECURSIVE find_adjacent_any_axis(_, _, _)
\* the loop of find_adjacent_terminal without the test of the orientation
find_adjacent_any_axis(s, cur, direction) ==
    LET p == s.parent[cur]
    IN IF p = Nil THEN Nil
       ELSE LET sibling ==
                    IF s.kind[p] = "Paned"
                    THEN AdjacentSibling(s, p, cur, direction)
                    ELSE Nil
                t == find_terminal_in_widget(s, sibling)
            IN IF t # Nil THEN t ELSE find_adjacent_any_axis(s, p, direction)

RECURSIVE find_adjacent_loop(_, _, _)
\* the loop of find_adjacent_terminal, from the widget cur upward
find_adjacent_loop(s, cur, direction) ==
    LET p == s.parent[cur]
    IN IF p = Nil THEN Nil
       ELSE LET sibling ==
                    IF s.kind[p] = "Paned"
                       /\ s.orientation[p] = target_orientation(direction)
                    THEN AdjacentSibling(s, p, cur, direction)
                    ELSE Nil
                t == find_terminal_in_widget(s, sibling)
            IN IF t # Nil THEN t ELSE find_adjacent_loop(s, p, direction)

find_adjacent_terminal(s, scrolled, direction) ==
    find_adjacent_loop(s, scrolled, direction)

(***************************************************************************)
(* The Notebook.                                                           *)
(***************************************************************************)

\* focus_terminal_in_page
focus_terminal_in_page(s, page) ==
    LET child == nth_page(s, page)
        terminal == find_terminal_in_widget(s, child)
    IN IF child # Nil /\ terminal # Nil THEN GrabFocus(s, terminal) ELSE s

\* The Notebook changes its current page: the handler build_ui connected to
\* switch_page (lines 193-195) runs for the page.
SwitchPage(s, n) == [focus_terminal_in_page(s, n) EXCEPT !.current = n]

\* notebook.set_current_page(Some(n)): nothing when n is no page's index
SetCurrentPage(s, n) ==
    IF n >= 0 /\ n < n_pages(s) /\ n # s.current THEN SwitchPage(s, n) ELSE s

\* notebook.append_page(b, ..): the first page of an empty Notebook becomes
\* its current page
AppendPage(s, b) ==
    LET s1 == [s EXCEPT !.pages = Append(s.pages, b), !.parent[b] = NotebookId]
    IN IF s.current = -1 THEN SwitchPage(s1, 0) ELSE s1

\* notebook.remove_page(Some(i)): the page's Box leaves the Notebook; when it
\* was the current page the Notebook turns to the page before it, or to the
\* next when there is none before; the current page otherwise stays the same
\* Box.
RemovePage(s, i) ==
    IF nth_page(s, i) = Nil THEN s
    ELSE LET b == nth_page(s, i)
             s1 == [Unparent(s, b) EXCEPT !.pages = SeqRemove(s.pages, b)]
         IN IF Len(s1.pages) = 0 THEN [s1 EXCEPT !.current = -1]
            ELSE IF i = s.current
                 THEN SwitchPage([s1 EXCEPT !.current = -1],
                                 IF i > 0 THEN i - 1 ELSE 0)
            ELSE IF i < s.current THEN [s1 EXCEPT !.current = s.current - 1]
            ELSE s1

\* focus_previous_tab without its set_current_page
focus_previous_tab_keeps_current(s, closed_index) ==
    IF n_pages(s) = 0 THEN s ELSE focus_terminal_in_page(s, s.current)

\* focus_previous_tab
focus_previous_tab(s, closed_index) ==
    LET n == n_pages(s)
        t0 == IF closed_index > 0 THEN closed_index - 1 ELSE 0
        target == IF t0 >= n THEN n - 1 ELSE t0
    IN IF n = 0 THEN s
       ELSE focus_terminal_in_page(SetCurrentPage(s, target), target)

(***************************************************************************)
(* Creating widgets.                                                       *)
(***************************************************************************)

\* create_terminal_widget: a new ScrolledWindow with its terminal; its
\* identity is s.next_id
create_terminal_widget(s) ==
    [s EXCEPT !.kind[s.next_id] = "Scrolled", !.next_id = s.next_id + 1]

\* gtk::Box::new / gtk::Paned::new(o)
NewBox(s) == [s EXCEPT !.kind[s.next_id] = "Box", !.next_id = s.next_id + 1]
NewPaned(s, o) ==
    [s EXCEPT !.kind[s.next_id] = "Paned", !.orientation[s.next_id] = o,
              !.next_id = s.next_id + 1]

\* create_tab without its counter.set
create_tab_keeps_counter(s) ==
    LET terminal == s.next_id
        content == s.next_id + 1
        s1 == NewBox(create_terminal_widget(s))
        s2 == BoxAppend(s1, content, terminal)
        tab_index == s2.tab_counter
        s3 == [s2 EXCEPT !.tab_label[content] = tab_index]
        s4 == AppendPage(s3, content)
        s5 == SetCurrentPage(s4, tab_index - 1)
    IN GrabFocus(s5, terminal)

\* create_tab; the label text is format!("{} {}", tab_title, tab_index), which
\* differs for different tab_index under one tab_title
create_tab(s) ==
    LET terminal == s.next_id
        content == s.next_id + 1
        s1 == NewBox(create_terminal_widget(s))
        s2 == BoxAppend(s1, content, terminal)
        tab_index == s2.tab_counter
        s3 == [s2 EXCEPT !.tab_counter = tab_index + 1,
                         !.tab_label[content] = tab_index]
        s4 == AppendPage(s3, content)
        s5 == SetCurrentPage(s4, tab_index - 1)
    IN GrabFocus(s5, terminal)

\* close_current_tab without the tab it creates when none is left
close_current_tab_no_recreate(s) ==
    LET page == s.current
    IN IF page # -1 THEN focus_previous_tab(RemovePage(s, page), page) ELSE s

\* close_current_tab
close_current_tab(s) ==
    LET page == s.current
        s1 == IF page # -1 THEN focus_previous_tab(RemovePage(s, page), page) ELSE s
    IN IF n_pages(s1) = 0 THEN create_tab(s1) ELSE s1

\* the handler create_tab connects to the tab's close button (lines 372-382)
close_button_clicked(s, content) ==
    LET page == page_num(s, content)
        s1 == IF page # -1 THEN focus_previous_tab(RemovePage(s, page), page) ELSE s
    IN IF n_pages(s1) = 0 THEN create_tab(s1) ELSE s1

\* close_tab_or_window removing the page also when it is the only one
close_tab_never_window(s) ==
    LET page == s.current
    IN IF page = -1 THEN s
       ELSE focus_previous_tab(RemovePage(s, page), page)

\* close_tab_or_window
close_tab_or_window(s) ==
    LET page == s.current
    IN IF page = -1 THEN s
       ELSE IF n_pages(s) <= 1 THEN [s EXCEPT !.open = FALSE]
       ELSE focus_previous_tab(RemovePage(s, page), page)

(***************************************************************************)
(* The pane tree.                                                          *)
(***************************************************************************)

\* replace_widget_in_parent with the end slot forgotten: a Paned parent always
\* gets the replacement as its start child
replace_widget_start_only(s, old, replacement) ==
    LET p == s.parent[old]
    IN IF p = Nil THEN s
       ELSE IF s.kind[p] = "Box" THEN BoxAppend(BoxRemove(s, p, old), p, replacement)
       ELSE IF s.kind[p] = "Paned" THEN PanedSetStartChild(s, p, replacement)
       ELSE s

\* replace_widget_in_parent
replace_widget_in_parent(s, old, replacement) ==
    LET p == s.parent[old]
    IN IF p = Nil THEN s
       ELSE IF s.kind[p] = "Box" THEN BoxAppend(BoxRemove(s, p, old), p, replacement)
       ELSE IF s.kind[p] = "Paned" THEN
            (IF s.start_child[p] = old THEN PanedSetStartChild(s, p, replacement)
             ELSE IF s.end_child[p] = old THEN PanedSetEndChild(s, p, replacement)
             ELSE s)
       ELSE s

\* the widget split_current_tab splits (lines 463-467): the ScrolledWindow
\* holding the focus, otherwise the first child of the current page's Box
existing_child_of(s) ==
    LET root == nth_page(s, s.current)
        scrolled == IF root = Nil THEN Nil
                    ELSE find_scrolled_ancestor(s, s.focus)
    IN IF root = Nil THEN Nil
       ELSE IF scrolled # Nil THEN scrolled
       ELSE BoxFirstChild(s, root)

\* split_current_tab without its set_end_child
split_without_end_child(s, o) ==
    LET existing_child == existing_child_of(s)
    IN IF existing_child = Nil THEN s
       ELSE LET new_terminal == s.next_id
                paned == s.next_id + 1
                s1 == NewPaned(create_terminal_widget(s), o)
                s2 == replace_widget_in_parent(s1, existing_child, paned)
                s3 == PanedSetStartChild(s2, paned, existing_child)
            IN GrabFocus(s3, new_terminal)

\* split_current_tab with the two children exchanged
split_new_pane_first(s, o) ==
    LET existing_child == existing_child_of(s)
    IN IF existing_child = Nil THEN s
       ELSE LET new_terminal == s.next_id
                paned == s.next_id + 1
                s1 == NewPaned(create_terminal_widget(s), o)
                s2 == replace_widget_in_parent(s1, existing_child, paned)
                s3 == PanedSetStartChild(s2, paned, new_terminal)
                s4 == PanedSetEndChild(s3, paned, existing_child)
            IN GrabFocus(s4, new_terminal)

\* split_current_tab
split_current_tab(s, o) ==
    LET existing_child == existing_child_of(s)
    IN IF existing_child = Nil THEN s
       ELSE LET new_terminal == s.next_id
                paned == s.next_id + 1
                s1 == NewPaned(create_terminal_widget(s), o)
                s2 == replace_widget_in_parent(s1, existing_child, paned)
                s3 == PanedSetStartChild(s2, paned, existing_child)
                s4 == PanedSetEndChild(s3, paned, new_terminal)
            IN GrabFocus(s4, new_terminal)

\* collapse_paned with the two children confused: the closed pane is put back
\* and its sibling dropped
collapse_keeps_removed(s, paned, removed) ==
    LET start == s.start_child[paned]
        end == s.end_child[paned]
        known == start = removed \/ end = removed
        s1 == PanedSetEndChild(PanedSetStartChild(s, paned, Nil), paned, Nil)
    IN IF ~known THEN s
       ELSE replace_widget_in_parent(s1, paned, removed)

\* collapse_paned
collapse_paned(s, paned, removed) ==
    LET start == s.start_child[paned]
        end == s.end_child[paned]
        known == start = removed \/ end = removed
        remaining == IF start = removed THEN end ELSE start
        s1 == PanedSetEndChild(PanedSetStartChild(s, paned, Nil), paned, Nil)
    IN IF ~known THEN s
       ELSE IF remaining = Nil THEN s1
       ELSE replace_widget_in_parent(s1, paned, remaining)

\* close_scrolled_widget
close_scrolled_widget(s, scrolled) ==
    LET p == s.parent[scrolled]
    IN IF p = Nil THEN s
       ELSE IF s.kind[p] = "Box" THEN close_tab_or_window(s)
       ELSE IF s.kind[p] = "Paned" THEN collapse_paned(s, p, scrolled)
       ELSE s

\* close_focused_panel: the state after it (its result is PanelFocused)
close_focused_panel(s) ==
    LET scrolled == find_scrolled_ancestor(s, s.focus)
    IN IF scrolled = Nil THEN s ELSE close_scrolled_widget(s, scrolled)

\* close_scrolled_widget_auto without the search for the Notebook and the window
close_scrolled_widget_auto_unchecked(s, scrolled) == close_scrolled_widget(s, scrolled)

\* close_scrolled_widget_auto: the handler of a terminal's child_exited
close_scrolled_widget_auto(s, scrolled) ==
    IF find_parent_notebook(s, scrolled) = Nil THEN s
    ELSE IF find_root_window(s, scrolled) = Nil THEN s
    ELSE close_scrolled_widget(s, scrolled)

\* focus_adjacent_split: the state after it
focus_adjacent_split(s, direction) ==
    LET scrolled == find_scrolled_ancestor(s, s.focus)
        target == IF scrolled = Nil THEN Nil
                  ELSE find_adjacent_terminal(s, scrolled, direction)
    IN IF target = Nil THEN s ELSE GrabFocus(s, target)


(***************************************************************************)
(* The layout as a value: what the widget graph under a page looks like.   *)
(***************************************************************************)

RECURSIVE Shape(_, _)
\* the pane tree under widget w: a Leaf with its terminal, a Split with its
\* orientation and the trees of its two sides, <<"None">> for an absent child
Shape(s, w) ==
    IF w = Nil THEN << "None" >>
    ELSE IF s.kind[w] = "Scrolled" THEN << "Leaf", w >>
    ELSE IF s.kind[w] = "Paned"
         THEN << "Split", s.orientation[w],
                 Shape(s, s.start_child[w]), Shape(s, s.end_child[w]) >>
    ELSE << "None" >>

\* the trees of a Box's children
BoxShape(s, b) == [i \in 1..Len(s.box_children[b]) |-> Shape(s, s.box_children[b][i])]

\* the trees of all the pages, in page order
Layout(s) == [i \in 1..Len(s.pages) |-> BoxShape(s, s.pages[i])]

(***************************************************************************)
(* Key chords: gdk keys, chord texts, parse_keybinding, the binding table. *)
(***************************************************************************)

\* the letter keys of the default chords, upper and lower case in the same order
UpperKeys == << "T", "W", "R", "D", "P", "H", "C", "V", "L", "K" >>
LowerKeys == << "t", "w", "r", "d", "p", "h", "c", "v", "l", "k" >>
\* the keys without case used by the default chords, and one function key
OtherKeys == { "Left", "Right", "Up", "Down", "F1",
               "1", "2", "3", "4", "5", "6", "7", "8", "9" }
Range(q) == { q[i] : i \in DOMAIN q }
\* the gdk::Key values of the model
Keys == Range(UpperKeys) \cup Range(LowerKeys) \cup OtherKeys

\* gdk::Key::to_lower and gdk::Key::to_upper, as tables over the keys
LowerOfKey ==
    [key \in Keys |->
        IF \E i \in DOMAIN UpperKeys : UpperKeys[i] = key
        THEN LowerKeys[CHOOSE i \in DOMAIN UpperKeys : UpperKeys[i] = key]
        ELSE key]
UpperOfKey ==
    [key \in Keys |->
        IF \E i \in DOMAIN LowerKeys : LowerKeys[i] = key
        THEN UpperKeys[CHOOSE i \in DOMAIN LowerKeys : LowerKeys[i] = key]
        ELSE key]
to_lower(key) == IF key \in Keys THEN LowerOfKey[key] ELSE key
to_upper(key) == IF key \in Keys THEN UpperOfKey[key] ELSE key

\* the bits of gdk::ModifierType the model has; KeyBinding::matches looks at
\* the first four
CONTROL_MASK == "CONTROL_MASK"
SHIFT_MASK == "SHIFT_MASK"
ALT_MASK == "ALT_MASK"
SUPER_MASK == "SUPER_MASK"
LOCK_MASK == "LOCK_MASK"
ModifierType == { CONTROL_MASK, SHIFT_MASK, ALT_MASK, SUPER_MASK, LOCK_MASK }

\* the tokens of chord texts whose letters are not all of one case, with
\* their to_ascii_lowercase and to_ascii_uppercase
MixedTokens == << "Ctrl", "Control", "Shift", "Alt", "Option", "Super", "Meta", "Win",
                  "Left", "Right", "Up", "Down", "Bogus" >>
MixedLower  == << "ctrl", "control", "shift", "alt", "option", "super", "meta", "win",
                  "left", "right", "up", "down", "bogus" >>
MixedUpper  == << "CTRL", "CONTROL", "SHIFT", "ALT", "OPTION", "SUPER", "META", "WIN",
                  "LEFT", "RIGHT", "UP", "DOWN", "BOGUS" >>

\* the position of x in the sequence q, 0 when it is not in it
IndexIn(q, x) ==
    IF \E i \in DOMAIN q : q[i] = x THEN CHOOSE i \in DOMAIN q : q[i] = x ELSE 0

\* str::to_ascii_lowercase on a token
to_ascii_lowercase(token) ==
    IF IndexIn(MixedTokens, token) # 0 THEN MixedLower[IndexIn(MixedTokens, token)]
    ELSE IF IndexIn(MixedUpper, token) # 0 THEN MixedLower[IndexIn(MixedUpper, token)]
    ELSE IF IndexIn(UpperKeys, token) # 0 THEN LowerKeys[IndexIn(UpperKeys, token)]
    ELSE IF token = "F1" THEN "f1"
    ELSE token

\* str::to_ascii_uppercase on a token
to_ascii_uppercase(token) ==
    IF IndexIn(MixedTokens, token) # 0 THEN MixedUpper[IndexIn(MixedTokens, token)]
    ELSE IF IndexIn(MixedLower, token) # 0 THEN MixedUpper[IndexIn(MixedLower, token)]
    ELSE IF IndexIn(LowerKeys, token) # 0 THEN UpperKeys[IndexIn(LowerKeys, token)]
    ELSE IF token = "f1" THEN "F1"
    ELSE token

\* gdk::Key::from_name: <<key>> for the name of a key, <<>> for any other text
from_name(token) == IF token \in Keys THEN << token >> ELSE << >>

\* an or that prefers its argument
or_prefers_argument(a, b) == IF b # << >> THEN b ELSE a

\* Option::or
or(a, b) == IF a # << >> THEN a ELSE b

RECURSIVE parse_parts(_, _, _)
\* the loop of parse_keybinding over the trimmed parts of text.split('+')
parse_parts(parts, modifiers, key) ==
    IF parts = << >> THEN [modifiers |-> modifiers, key |-> key]
    ELSE LET token == Head(parts)
             low == to_ascii_lowercase(token)
         IN IF token = "" THEN parse_parts(Tail(parts), modifiers, key)
            ELSE IF low \in {"ctrl", "control"}
                 THEN parse_parts(Tail(parts), modifiers \cup {CONTROL_MASK}, key)
            ELSE IF low = "shift"
                 THEN parse_parts(Tail(parts), modifiers \cup {SHIFT_MASK}, key)
            ELSE IF low \in {"alt", "option"}
                 THEN parse_parts(Tail(parts), modifiers \cup {ALT_MASK}, key)
            ELSE IF low \in {"super", "meta", "win"}
                 THEN parse_parts(Tail(parts), modifiers \cup {SUPER_MASK}, key)
            ELSE LET try_name == or(from_name(token), from_name(to_ascii_uppercase(token)))
                 IN parse_parts(Tail(parts), modifiers, or(try_name, key))

\* parse_keybinding: <<KeyBinding>> when a part names a key, <<>> otherwise;
\* a chord text is given as the sequence of its trimmed '+'-separated parts
parse_keybinding(text) ==
    LET r == parse_parts(text, {}, << >>)
    IN IF r.key = << >> THEN << >>
       ELSE << [key |-> r.key[1], modifiers |-> r.modifiers] >>

\* KeyBinding::matches asking for the chord's modifiers to be held, among others
matches_superset(binding, key, state) ==
    LET relevant == {CONTROL_MASK, SHIFT_MASK, ALT_MASK, SUPER_MASK}
        key_matches == \/ key = binding.key
                       \/ to_lower(key) = to_lower(binding.key)
                       \/ to_upper(key) = to_upper(binding.key)
    IN key_matches /\ binding.modifiers \subseteq (state \cap relevant)

\* KeyBinding::matches
matches(binding, key, state) ==
    LET relevant == {CONTROL_MASK, SHIFT_MASK, ALT_MASK, SUPER_MASK}
        key_matches == \/ key = binding.key
                       \/ to_lower(key) = to_lower(binding.key)
                       \/ to_upper(key) = to_upper(binding.key)
    IN key_matches /\ (state \cap relevant) = binding.modifiers

\* the named commands of KeyBindings, in the order the key handler tests them
NamedCommands ==
    << "new_tab", "close_tab", "rename_tab", "close_panel", "split_vertical",
       "split_horizontal", "copy", "paste", "focus_left", "focus_right",
       "focus_up", "focus_down", "reload_config", "show_keybindings" >>
\* the fields tab_1 .. tab_9 of RawKeyBindings, in order
TabFields ==
    << "tab_1", "tab_2", "tab_3", "tab_4", "tab_5", "tab_6", "tab_7", "tab_8", "tab_9" >>
\* every field of RawKeyBindings
RawFields == Range(NamedCommands) \cup Range(TabFields)

\* the chord texts of default_keybindings
DefaultText ==
    [ new_tab |-> << "Ctrl", "Shift", "T" >>, close_tab |-> << "Ctrl", "Shift", "W" >>,
      rename_tab |-> << "Ctrl", "Shift", "R" >>, close_panel |-> << "Ctrl", "D" >>,
      split_vertical |-> << "Ctrl", "Shift", "P" >>,
      split_horizontal |-> << "Ctrl", "Shift", "H" >>,
      copy |-> << "Ctrl", "Shift", "C" >>, paste |-> << "Ctrl", "Shift", "V" >>,
      reload_config |-> << "Ctrl", "Shift", "L" >>,
      show_keybindings |-> << "Ctrl", "Shift", "K" >>,
      focus_left |-> << "Alt", "Left" >>, focus_right |-> << "Alt", "Right" >>,
      focus_up |-> << "Alt", "Up" >>, focus_down |-> << "Alt", "Down" >> ]

\* the decimal digit format!("Alt+{n}") writes for n in 1..=9
Digit(n) == << "1", "2", "3", "4", "5", "6", "7", "8", "9" >>[n]

\* default_keybindings: the named bindings, and tab_switch with one binding
\* for each n in 1..=9
default_keybindings ==
    [ named |-> [c \in Range(NamedCommands) |-> parse_keybinding(DefaultText[c])[1]],
      tab_switch |-> [n \in 1..TabSwitchCount |-> parse_keybinding(<< "Alt", Digit(n) >>)[1]] ]

\* apply_keybindings that clears a binding whose text names no key
apply_keybindings_unsets(bindings, raw) ==
    [ named |-> [c \in Range(NamedCommands) |->
                    IF raw[c] = << >> THEN bindings.named[c]
                    ELSE IF parse_keybinding(raw[c][1]) = << >>
                         THEN [key |-> "VoidSymbol", modifiers |-> {}]
                    ELSE parse_keybinding(raw[c][1])[1]],
      tab_switch |-> [n \in 1..Len(bindings.tab_switch) |->
                    IF raw[TabFields[n]] = << >> THEN bindings.tab_switch[n]
                    ELSE IF parse_keybinding(raw[TabFields[n]][1]) = << >>
                         THEN [key |-> "VoidSymbol", modifiers |-> {}]
                    ELSE parse_keybinding(raw[TabFields[n]][1])[1]] ]

\* apply_keybindings: raw gives each field <<text>> or <<>>; a binding is
\* replaced when its field has a text that parse_keybinding accepts
apply_keybindings(bindings, raw) ==
    [ named |-> [c \in Range(NamedCommands) |->
                    IF raw[c] # << >> /\ parse_keybinding(raw[c][1]) # << >>
                    THEN parse_keybinding(raw[c][1])[1]
                    ELSE bindings.named[c]],
      tab_switch |-> [n \in 1..Len(bindings.tab_switch) |->
                    IF raw[TabFields[n]] # << >>
                       /\ parse_keybinding(raw[TabFields[n]][1]) # << >>
                    THEN parse_keybinding(raw[TabFields[n]][1])[1]
                    ELSE bindings.tab_switch[n]] ]

\* a configuration file without a [keybindings] entry
NoRawKeys == [f \in RawFields |-> << >>]

\* Config::load: the default bindings with the file's table applied
load_keybindings(raw) == apply_keybindings(default_keybindings, raw)

(***************************************************************************)
(* The state after build_ui, and the events.                               *)
(***************************************************************************)

\* what last holds: the event, what it acted on (a widget, Nil when none; the
\* index of a tab-switch within the tabs; the commands a key event matched)
\* and how it went (the orientation of a split, the branch a close took, the
\* direction of a focus chord, whether a tab-switch index was within the
\* tabs, the command a key event ran)
Event(op, x, r) == [op |-> op, x |-> x, r |-> r]

\* the branch close_scrolled_widget takes for a ScrolledWindow
close_outcome(s, scrolled) ==
    IF scrolled = Nil \/ s.parent[scrolled] = Nil THEN "none"
    ELSE IF s.kind[s.parent[scrolled]] = "Box"
         THEN (IF s.current = -1 THEN "none"
               ELSE IF n_pages(s) <= 1 THEN "window" ELSE "tab")
    ELSE IF s.kind[s.parent[scrolled]] = "Paned" THEN "collapse"
    ELSE "none"

\* what the close of a tab by its chord or its button does after the removal
\* (lines 379-381 and 403-405)
tab_close_outcome(s) == IF n_pages(s) <= 1 THEN "recreate" ELSE "tab"

\* what a click on the close button of the tab b did, r being the handler's
\* result: of a tab that was not the current one, whether the current page is
\* still the same tab
button_close_outcome(s, b, r) ==
    IF n_pages(s) <= 1 \/ page_num(s, b) = s.current THEN tab_close_outcome(s)
    ELSE IF nth_page(r, r.current) # nth_page(s, s.current) THEN "other_moved"
    ELSE "other_kept"

\* the layout before a split is kept over the close of the pane the split made
KeepSnap(x) == IF snap # <<>> /\ x = next_id - 2 THEN snap ELSE <<>>

\* build_ui before its create_tab: the window and the notebook in it
Blank ==
    [ kind |-> [i \in Ids |-> IF i = WindowId THEN "Window"
                              ELSE IF i = NotebookId THEN "Notebook" ELSE "None"],
      parent |-> [i \in Ids |-> IF i = NotebookId THEN WindowId ELSE Nil],
      start_child |-> [i \in Ids |-> Nil],
      end_child |-> [i \in Ids |-> Nil],
      orientation |-> [i \in Ids |-> "-"],
      box_children |-> [i \in Ids |-> <<>>],
      pages |-> <<>>, current |-> -1, focus |-> Nil, open |-> TRUE,
      next_id |-> 3, tab_counter |-> 1, tab_label |-> [i \in Ids |-> 0] ]

\* build_ui creates the first tab (line 203)
Built == create_tab(Blank)

\* the paths of the theme files: the one the configuration file names and
\* the one of --theme-file
ThemePaths == {"theme.toml", "cli.toml"}

\* no --theme-file argument, no configuration file, no theme file
NoFiles ==
    [ theme_override |-> << >>, config_toml |-> << >>,
      themes |-> [path \in ThemePaths |-> << >>] ]

\* build_ui: the Config it loads, with the --theme-file argument over it
\* (lines 176-181)
BuiltConfig(e) == with_theme_override(load_config(e), e)

\* the label text of the first tab
BuiltTabText(c) ==
    [i \in Ids |-> IF Built.kind[i] = "Box" THEN label_text(c.tab_title, Built.tab_label[i])
                   ELSE << >>]

\* the Terminal of the first tab
BuiltTerminals(c, e) ==
    [i \in Ids |-> IF Built.kind[i] = "Scrolled" THEN create_terminal(c, e)
                   ELSE NoTerminal]

Init ==
    /\ kind = Built.kind
    /\ parent = Built.parent
    /\ start_child = Built.start_child
    /\ end_child = Built.end_child
    /\ orientation = Built.orientation
    /\ box_children = Built.box_children
    /\ pages = Built.pages
    /\ current = Built.current
    /\ focus = Built.focus
    /\ open = Built.open
    /\ next_id = Built.next_id
    /\ tab_counter = Built.tab_counter
    /\ tab_label = Built.tab_label
    /\ config_file = NoRawKeys
    /\ keybindings = load_keybindings(NoRawKeys)
    /\ propagation = "-"
    /\ exited = {}
    /\ keep_detached = FALSE
    /\ env = NoFiles
    /\ config = BuiltConfig(NoFiles)
    /\ terminal_of = BuiltTerminals(BuiltConfig(NoFiles), NoFiles)
    /\ tab_text = BuiltTabText(BuiltConfig(NoFiles))
    /\ dialog = << >>
    /\ last = Event("init", Nil, "-")
    /\ snap = <<>>

\* two more widgets may be created
CanCreate == next_id + 1 <= MaxId

\* the new_tab chord (lines 214-217)
NewTab ==
    /\ open /\ CanCreate
    /\ \E r \in {create_tab(S)} : Commit(r, exited)
    /\ last' = Event("new_tab", Nil, "-")
    /\ snap' = <<>>
    /\ UNCHANGED << config_file, keybindings, propagation, dialog, config, env >>

\* the close_tab chord (lines 219-222)
CloseTab ==
    /\ open
    /\ n_pages(S) = 1 => CanCreate
    /\ \E r \in {close_current_tab(S)} : Commit(r, exited)
    /\ last' = Event("close_tab", Nil, tab_close_outcome(S))
    /\ snap' = <<>>
    /\ UNCHANGED << config_file, keybindings, propagation, dialog, config, env >>

\* a click on the close button of the tab whose content is b
CloseButton(b) ==
    /\ open
    /\ kind[b] = "Box"
    /\ page_num(S, b) # -1
    /\ n_pages(S) = 1 => CanCreate
    /\ \E r \in {close_button_clicked(S, b)} :
          /\ Commit(r, exited)
          /\ last' = Event("close_button", b, button_close_outcome(S, b, r))
    /\ snap' = <<>>
    /\ UNCHANGED << config_file, keybindings, propagation, dialog, config, env >>

\* the close_panel chord (lines 229-233)
ClosePanel ==
    /\ open
    /\ \E r \in {close_focused_panel(S)} : Commit(r, exited)
    /\ last' = Event("close_panel", find_scrolled_ancestor(S, focus),
                     close_outcome(S, find_scrolled_ancestor(S, focus)))
    /\ snap' = KeepSnap(find_scrolled_ancestor(S, focus))
    /\ UNCHANGED << config_file, keybindings, propagation, dialog, config, env >>

\* the split_vertical and split_horizontal chords (lines 235-253)
Split(o) ==
    /\ open /\ CanCreate
    /\ \E r \in {split_current_tab(S, o)} : Commit(r, exited)
    /\ last' = Event("split", existing_child_of(S), o)
    /\ snap' = Layout(S)
    /\ UNCHANGED << config_file, keybindings, propagation, dialog, config, env >>

\* the focus_left, focus_right, focus_up and focus_down chords (lines 269-291)
Focus(d) ==
    /\ open
    /\ \E r \in {focus_adjacent_split(S, d)} : Commit(r, exited)
    /\ last' = Event("focus", find_scrolled_ancestor(S, focus), d)
    /\ snap' = <<>>
    /\ UNCHANGED << config_file, keybindings, propagation, dialog, config, env >>

\* the tab_switch loop's body taking the index for a tab number
tab_switch_one_based(s, index) ==
    IF index < n_pages(s)
    THEN focus_terminal_in_page(SetCurrentPage(s, index + 1), index + 1)
    ELSE s

\* the tab_switch loop's body for the binding that matched (lines 326-331)
tab_switch(s, index) ==
    IF index < n_pages(s)
    THEN focus_terminal_in_page(SetCurrentPage(s, index), index)
    ELSE s

\* the tab_switch chords (lines 318-334)
TabSwitch(index) ==
    /\ open
    /\ index < TabSwitchCount
    /\ \E r \in {tab_switch(S, index)} : Commit(r, exited)
    /\ last' = Event("tab_switch", IF index < n_pages(S) THEN index ELSE Nil,
                     IF index < n_pages(S) THEN "in" ELSE "out")
    /\ snap' = <<>>
    /\ UNCHANGED << config_file, keybindings, propagation, dialog, config, env >>

\* the child process of terminal t exits: child_exited (lines 697-699)
SessionExit(t) ==
    /\ open
    /\ kind[t] = "Scrolled"
    /\ t \notin exited
    /\ \E r \in {close_scrolled_widget_auto(S, t)} : Commit(r, exited \cup {t})
    /\ last' = Event("session_exit", t,
                     IF find_parent_notebook(S, t) = Nil THEN "none"
                     ELSE close_outcome(S, t))
    /\ snap' = KeepSnap(t)
    /\ UNCHANGED << config_file, keybindings, propagation, dialog, config, env >>

Next ==
    \/ NewTab
    \/ CloseTab
    \/ \E b \in Ids : CloseButton(b)
    \/ ClosePanel
    \/ \E o \in Orientations : Split(o)
    \/ \E d \in FocusDirection : Focus(d)
    \/ \E index \in 0..MaxSwitchIndex : TabSwitch(index)
    \/ \E t \in Ids : SessionExit(t)

Spec == Init /\ [][Next]_vars

(***************************************************************************)
(* reload_config_and_theme.                                                *)
(***************************************************************************)

RECURSIVE collect_terminals(_, _)
RECURSIVE collect_among(_, _)
\* collect_terminals: the terminals under a widget, a Paned's start child
\* before its end child and a Box's children in their order
collect_terminals(s, widget) ==
    IF widget = Nil THEN << >>
    ELSE IF s.kind[widget] = "Scrolled" THEN << widget >>
    ELSE IF s.kind[widget] = "Paned"
         THEN collect_terminals(s, s.start_child[widget])
                 \o collect_terminals(s, s.end_child[widget])
    ELSE IF s.kind[widget] = "Box" THEN collect_among(s, s.box_children[widget])
    ELSE << >>
collect_among(s, children) ==
    IF children = << >> THEN << >>
    ELSE collect_terminals(s, Head(children)) \o collect_among(s, Tail(children))

\* the Config reload_config_and_theme takes (lines 866-869), and its theme
\* (lines 870-873)
\* a reload that takes the Config as the file gives it
reloaded_config_from_file_alone(e) == load_config(e)

reloaded_config(e) == with_theme_override(load_config(e), e)
reloaded_theme(e) ==
    IF reloaded_config(e).theme_file = << >> THEN << >>
    ELSE theme_from_file(e, reloaded_config(e).theme_file[1])

\* one terminal in the loop of apply_config_to_terminals
apply_config_to_terminal(t, c, theme) ==
    IF theme # << >> THEN apply_theme(apply_config(t, c), theme[1])
    ELSE apply_config(t, c)

\* apply_config_to_terminals going over the current page alone
apply_config_to_current_page(s, terminals, c, theme) ==
    LET touched == Range(collect_terminals(s, nth_page(s, s.current)))
    IN [i \in Ids |-> IF i \in touched THEN apply_config_to_terminal(terminals[i], c, theme)
                      ELSE terminals[i]]

\* apply_config_to_terminals: the settings of the terminals after it
apply_config_to_terminals(s, terminals, c, theme) ==
    LET touched == UNION { Range(collect_terminals(s, nth_page(s, index))) :
                             index \in 0..(n_pages(s) - 1) }
    IN [i \in Ids |-> IF i \in touched THEN apply_config_to_terminal(terminals[i], c, theme)
                      ELSE terminals[i]]

(***************************************************************************)
(* The key handler as a whole: a key event against the binding table.      *)
(***************************************************************************)

\* close_focused_panel: its result
close_focused_panel_result(s) == find_scrolled_ancestor(s, s.focus) # Nil

\* focus_adjacent_split: its result
focus_adjacent_split_result(s, direction) ==
    /\ find_scrolled_ancestor(s, s.focus) # Nil
    /\ find_adjacent_terminal(s, find_scrolled_ancestor(s, s.focus), direction) # Nil

\* focused_terminal: the terminal of the pane holding the focus
focused_terminal(s) ==
    or(IF find_terminal_in_widget(s, s.focus) # Nil
       THEN << find_terminal_in_widget(s, s.focus) >> ELSE << >>,
       IF find_scrolled_ancestor(s, s.focus) # Nil
       THEN << find_terminal_in_widget(s, find_scrolled_ancestor(s, s.focus)) >>
       ELSE << >>)

\* rename_current_tab: it presents the dialog; panes and tabs stay
rename_current_tab(s) == s

\* char::is_whitespace, for the characters of the model
White_Space == { " ", "\t" }

RECURSIVE trim_start(_)
\* str::trim_start
trim_start(text) ==
    IF text # << >> /\ Head(text) \in White_Space THEN trim_start(Tail(text)) ELSE text

RECURSIVE trim_end(_)
\* str::trim_end
trim_end(text) ==
    IF text # << >> /\ text[Len(text)] \in White_Space
    THEN trim_end(SubSeq(text, 1, Len(text) - 1))
    ELSE text

\* a trim that leaves the whitespace at the end
trim_leading_only(text) == trim_start(text)

\* str::trim
trim(text) == trim_end(trim_start(text))

\* rename_current_tab (lines 408-440): the dialog it presents holds the Label
\* of the current tab, and its Entry starts with that Label's text; none is
\* presented without a current page
present_dialog(s, titles) ==
    IF nth_page(s, s.current) = Nil THEN << >>
    ELSE << [label |-> nth_page(s, s.current), entry |-> titles[nth_page(s, s.current)]] >>

\* a response handler without the test of the trimmed text
connect_response_any_text(s, d, response, titles) ==
    IF response = "Ok" /\ s.kind[d.label] = "Box"
    THEN [titles EXCEPT ![d.label] = trim(d.entry)]
    ELSE titles

\* the handler of the dialog's response (lines 429-438): Ok with a text that
\* is not empty once trimmed sets the Label to the trimmed text.  The Label
\* of a tab that has left the notebook is shown nowhere: no text is kept
\* for it.
connect_response(s, d, response, titles) ==
    IF response = "Ok" /\ trim(d.entry) # << >> /\ s.kind[d.label] = "Box"
    THEN [titles EXCEPT ![d.label] = trim(d.entry)]
    ELSE titles

\* a branch of the handler that returns Propagation::Stop
Stop(s, kb, command) ==
    [s |-> s, keybindings |-> kb, ran |-> command, propagation |-> "Stop"]

\* the end of the handler: Propagation::Proceed
Proceed(s, kb) ==
    [s |-> s, keybindings |-> kb, ran |-> "none", propagation |-> "Proceed"]

\* the first binding of tab_switch that matches, 0 when none does
first_tab_match(kb, key, state) ==
    IF \E n \in DOMAIN kb.tab_switch : matches(kb.tab_switch[n], key, state)
    THEN CHOOSE n \in DOMAIN kb.tab_switch :
            /\ matches(kb.tab_switch[n], key, state)
            /\ \A k \in DOMAIN kb.tab_switch :
                  matches(kb.tab_switch[k], key, state) => n <= k
    ELSE 0

\* the tab_switch loop (lines 318-334); index is the position less one
tab_switch_loop(s, kb, key, state) ==
    LET n == first_tab_match(kb, key, state)
    IN IF n # 0 /\ n - 1 < n_pages(s)
       THEN Stop(tab_switch(s, n - 1), kb, TabFields[n])
       ELSE Proceed(s, kb)

\* the key handler returning Stop for every binding that matches but the
\* ones of close_panel and the focus commands
key_pressed_hard_copy_paste(s, kb, file, key, state) ==
    LET m(c) == matches(kb.named[c], key, state)
    IN IF m("new_tab") THEN Stop(create_tab(s), kb, "new_tab")
       ELSE IF m("close_tab") THEN Stop(close_current_tab(s), kb, "close_tab")
       ELSE IF m("rename_tab") THEN Stop(rename_current_tab(s), kb, "rename_tab")
       ELSE IF m("close_panel") /\ close_focused_panel_result(s)
            THEN Stop(close_focused_panel(s), kb, "close_panel")
       ELSE IF m("split_vertical")
            THEN Stop(split_current_tab(s, Horizontal), kb, "split_vertical")
       ELSE IF m("split_horizontal")
            THEN Stop(split_current_tab(s, Vertical), kb, "split_horizontal")
       ELSE IF m("copy") THEN Stop(s, kb, "copy")
       ELSE IF m("paste") THEN Stop(s, kb, "paste")
       ELSE IF m("focus_left") /\ focus_adjacent_split_result(s, "Left")
            THEN Stop(focus_adjacent_split(s, "Left"), kb, "focus_left")
       ELSE IF m("focus_right") /\ focus_adjacent_split_result(s, "Right")
            THEN Stop(focus_adjacent_split(s, "Right"), kb, "focus_right")
       ELSE IF m("focus_up") /\ focus_adjacent_split_result(s, "Up")
            THEN Stop(focus_adjacent_split(s, "Up"), kb, "focus_up")
       ELSE IF m("focus_down") /\ focus_adjacent_split_result(s, "Down")
            THEN Stop(focus_adjacent_split(s, "Down"), kb, "focus_down")
       ELSE IF m("reload_config") THEN Stop(s, load_keybindings(file), "reload_config")
       ELSE IF m("show_keybindings") THEN Stop(s, kb, "show_keybindings")
       ELSE IF first_tab_match(kb, key, state) # 0
            THEN Stop(tab_switch(s, first_tab_match(kb, key, state) - 1), kb,
                      TabFields[first_tab_match(kb, key, state)])
       ELSE Proceed(s, kb)

\* the key handler returning Stop for a focus chord that found no pane
key_pressed_focus_consumes(s, kb, file, key, state) ==
    LET m(c) == matches(kb.named[c], key, state)
    IN IF m("new_tab") THEN Stop(create_tab(s), kb, "new_tab")
       ELSE IF m("close_tab") THEN Stop(close_current_tab(s), kb, "close_tab")
       ELSE IF m("rename_tab") THEN Stop(rename_current_tab(s), kb, "rename_tab")
       ELSE IF m("close_panel") /\ close_focused_panel_result(s)
            THEN Stop(close_focused_panel(s), kb, "close_panel")
       ELSE IF m("split_vertical")
            THEN Stop(split_current_tab(s, Horizontal), kb, "split_vertical")
       ELSE IF m("split_horizontal")
            THEN Stop(split_current_tab(s, Vertical), kb, "split_horizontal")
       ELSE IF m("copy") /\ focused_terminal(s) # << >> THEN Stop(s, kb, "copy")
       ELSE IF m("paste") /\ focused_terminal(s) # << >> THEN Stop(s, kb, "paste")
       ELSE IF m("focus_left") THEN Stop(focus_adjacent_split(s, "Left"), kb, "focus_left")
       ELSE IF m("focus_right") THEN Stop(focus_adjacent_split(s, "Right"), kb, "focus_right")
       ELSE IF m("focus_up") THEN Stop(focus_adjacent_split(s, "Up"), kb, "focus_up")
       ELSE IF m("focus_down") THEN Stop(focus_adjacent_split(s, "Down"), kb, "focus_down")
       ELSE IF m("reload_config") THEN Stop(s, load_keybindings(file), "reload_config")
       ELSE IF m("show_keybindings") THEN Stop(s, kb, "show_keybindings")
       ELSE tab_switch_loop(s, kb, key, state)

\* the connect_key_pressed handler (lines 213-337): the bindings are tested
\* in order; a branch whose action is done returns Stop, a binding that
\* matches without its action being done lets the tests go on; file is the
\* table reload_config_and_theme reads anew
key_pressed(s, kb, file, key, state) ==
    LET m(c) == matches(kb.named[c], key, state)
    IN IF m("new_tab") THEN Stop(create_tab(s), kb, "new_tab")
       ELSE IF m("close_tab") THEN Stop(close_current_tab(s), kb, "close_tab")
       ELSE IF m("rename_tab") THEN Stop(rename_current_tab(s), kb, "rename_tab")
       ELSE IF m("close_panel") /\ close_focused_panel_result(s)
            THEN Stop(close_focused_panel(s), kb, "close_panel")
       ELSE IF m("split_vertical")
            THEN Stop(split_current_tab(s, Horizontal), kb, "split_vertical")
       ELSE IF m("split_horizontal")
            THEN Stop(split_current_tab(s, Vertical), kb, "split_horizontal")
       ELSE IF m("copy") /\ focused_terminal(s) # << >> THEN Stop(s, kb, "copy")
       ELSE IF m("paste") /\ focused_terminal(s) # << >> THEN Stop(s, kb, "paste")
       ELSE IF m("focus_left") /\ focus_adjacent_split_result(s, "Left")
            THEN Stop(focus_adjacent_split(s, "Left"), kb, "focus_left")
       ELSE IF m("focus_right") /\ focus_adjacent_split_result(s, "Right")
            THEN Stop(focus_adjacent_split(s, "Right"), kb, "focus_right")
       ELSE IF m("focus_up") /\ focus_adjacent_split_result(s, "Up")
            THEN Stop(focus_adjacent_split(s, "Up"), kb, "focus_up")
       ELSE IF m("focus_down") /\ focus_adjacent_split_result(s, "Down")
            THEN Stop(focus_adjacent_split(s, "Down"), kb, "focus_down")
       ELSE IF m("reload_config") THEN Stop(s, load_keybindings(file), "reload_config")
       ELSE IF m("show_keybindings") THEN Stop(s, kb, "show_keybindings")
       ELSE tab_switch_loop(s, kb, key, state)

\* the commands whose binding matches the event, in the handler's order
matched_commands(kb, key, state) ==
    LET NamedTest(c) == matches(kb.named[c], key, state)
        TabTest(f) == matches(kb.tab_switch[IndexIn(TabFields, f)], key, state)
    IN SelectSeq(NamedCommands, NamedTest) \o SelectSeq(TabFields, TabTest)

\* the fields of the configuration file's table that the model varies, and
\* the chord texts it gives them
VariedTexts ==
    [ close_panel |-> { << "Ctrl", "Shift", "P" >>, << "Ctrl", "Bogus" >> },
      focus_left |-> { << "alt", "2" >>, << "ctrl", "shift", "f1" >> },
      tab_1 |-> { << "alt", "2" >> } ]
VariedFields == DOMAIN VariedTexts
\* the tables the configuration file may hold: each varied field absent or
\* with one of its texts, every other field absent
RawConfigs ==
    { [f \in RawFields |-> IF f \in VariedFields THEN v[f] ELSE << >>] :
        v \in { w \in [VariedFields -> {<< >>} \cup
                                        { << x >> : x \in UNION Range(VariedTexts) }] :
                  \A f \in VariedFields : w[f] = << >> \/ w[f][1] \in VariedTexts[f] } }

\* the key events the model sends
EventKeys == { "T", "P", "D", "d", "C", "F1", "2", "Left" }
EventStates ==
    { {CONTROL_MASK}, {ALT_MASK}, {CONTROL_MASK, SHIFT_MASK},
      {CONTROL_MASK, SHIFT_MASK, LOCK_MASK} }

\* build_ui with a configuration file: Config::load applies its table
ConfiguredUi ==
    /\ kind = Built.kind
    /\ parent = Built.parent
    /\ start_child = Built.start_child
    /\ end_child = Built.end_child
    /\ orientation = Built.orientation
    /\ box_children = Built.box_children
    /\ pages = Built.pages
    /\ current = Built.current
    /\ focus = Built.focus
    /\ open = Built.open
    /\ next_id = Built.next_id
    /\ tab_counter = Built.tab_counter
    /\ tab_label = Built.tab_label
    /\ config_file \in RawConfigs
    /\ keybindings = load_keybindings(config_file)
    /\ propagation = "-"
    /\ exited = {}
    /\ keep_detached = FALSE
    /\ env = NoFiles
    /\ config = BuiltConfig(NoFiles)
    /\ terminal_of = BuiltTerminals(BuiltConfig(NoFiles), NoFiles)
    /\ tab_text = BuiltTabText(BuiltConfig(NoFiles))
    /\ dialog = << >>
    /\ snap = <<>>

KeyInit == ConfiguredUi /\ last = Event("init", << >>, "-")

\* two more widgets may be created in a behaviour of key events
KeyCanCreate == CanCreate /\ next_id + 1 <= 2 + 2 * (MaxKeyCreate + 1)

\* a key event reaches the window's key controller
KeyPressed(key, state) ==
    /\ open
    /\ dialog = << >>
    /\ \E h \in {key_pressed(S, keybindings, config_file, key, state)} :
          /\ h.s.next_id # next_id => KeyCanCreate
          /\ dialog' = IF h.ran = "rename_tab" THEN present_dialog(S, tab_text) ELSE dialog
          /\ CommitWith(h.s, exited,
                        IF h.ran = "reload_config"
                        THEN apply_config_to_terminals(S, terminal_of, reloaded_config(env),
                                                       reloaded_theme(env))
                        ELSE terminal_of)
          /\ config' = IF h.ran = "reload_config" THEN reloaded_config(env) ELSE config
          /\ keybindings' = h.keybindings
          /\ propagation' = h.propagation
          /\ last' = Event("key", matched_commands(keybindings, key, state), h.ran)
    /\ snap' = <<>>
    /\ UNCHANGED << config_file, env >>

KeyNext == \E key \in EventKeys : \E state \in EventStates : KeyPressed(key, state)

KeySpec == KeyInit /\ [][KeyNext]_vars

(***************************************************************************)
(* KeyBinding::matches on its own: one key event against every binding of  *)
(* the table, for every key and every modifier state of the model.         *)
(***************************************************************************)

\* a key event is about to be tested
MatchInit ==
    /\ ConfiguredUi
    /\ \E key \in Keys : \E state \in SUBSET ModifierType :
          last = Event("event", << key, state >>, << >>)

\* the handler's calls of matches for the event, one for every binding
MatchEvent ==
    /\ last.op = "event"
    /\ last' = Event("matches", last.x,
                     matched_commands(keybindings, last.x[1], last.x[2]))
    /\ UNCHANGED << kind, parent, start_child, end_child, orientation, box_children,
                    pages, current, focus, open, next_id, tab_counter, tab_label,
                    config_file, keybindings, propagation, exited, keep_detached,
                    terminal_of, tab_text, dialog, config, env, snap >>

MatchNext == MatchEvent

MatchSpec == MatchInit /\ [][MatchNext]_vars

(***************************************************************************)
(* parse_keybinding on its own: one chord text, parsed as apply_keybindings *)
(* parses the text of a field of the configuration file.                   *)
(***************************************************************************)

\* the most '+'-separated parts of a chord text
MaxParts == 3

\* the parts of the chord texts: the empty part, every name of a modifier,
\* key names in several cases, and a name of nothing
PartTokens ==
    { "", "ctrl", "Control", "SHIFT", "alt", "Alt", "ALT", "option", "Super", "meta",
      "WIN", "T", "t", "Left", "left", "LEFT", "f1", "Bogus" }

\* the chord texts parsed
ChordTexts == UNION { [1..n -> PartTokens] : n \in 0..MaxParts }

\* a chord text is about to be parsed
ParseInit ==
    /\ kind = Built.kind
    /\ parent = Built.parent
    /\ start_child = Built.start_child
    /\ end_child = Built.end_child
    /\ orientation = Built.orientation
    /\ box_children = Built.box_children
    /\ pages = Built.pages
    /\ current = Built.current
    /\ focus = Built.focus
    /\ open = Built.open
    /\ next_id = Built.next_id
    /\ tab_counter = Built.tab_counter
    /\ tab_label = Built.tab_label
    /\ config_file = NoRawKeys
    /\ keybindings = load_keybindings(NoRawKeys)
    /\ propagation = "-"
    /\ exited = {}
    /\ keep_detached = FALSE
    /\ env = NoFiles
    /\ config = BuiltConfig(NoFiles)
    /\ terminal_of = BuiltTerminals(BuiltConfig(NoFiles), NoFiles)
    /\ tab_text = BuiltTabText(BuiltConfig(NoFiles))
    /\ dialog = << >>
    /\ snap = <<>>
    /\ \E text \in ChordTexts : last = Event("text", text, << >>)

\* apply_keybindings' call of parse_keybinding for the text
ParseText ==
    /\ last.op = "text"
    /\ last' = Event("parsed", last.x, parse_keybinding(last.x))
    /\ UNCHANGED << kind, parent, start_child, end_child, orientation, box_children,
                    pages, current, focus, open, next_id, tab_counter, tab_label,
                    config_file, keybindings, propagation, exited, keep_detached,
                    terminal_of, tab_text, dialog, config, env, snap >>

ParseNext == ParseText

ParseSpec == ParseInit /\ [][ParseNext]_vars

(***************************************************************************)
(* The same events with the detached widgets kept: a terminal that left    *)
(* the window still has its child_exited handler (lines 696-699).          *)
(***************************************************************************)

StaleInit ==
    /\ kind = Built.kind
    /\ parent = Built.parent
    /\ start_child = Built.start_child
    /\ end_child = Built.end_child
    /\ orientation = Built.orientation
    /\ box_children = Built.box_children
    /\ pages = Built.pages
    /\ current = Built.current
    /\ focus = Built.focus
    /\ open = Built.open
    /\ next_id = Built.next_id
    /\ tab_counter = Built.tab_counter
    /\ tab_label = Built.tab_label
    /\ config_file = NoRawKeys
    /\ keybindings = load_keybindings(NoRawKeys)
    /\ propagation = "-"
    /\ exited = {}
    /\ keep_detached = TRUE
    /\ env = NoFiles
    /\ config = BuiltConfig(NoFiles)
    /\ terminal_of = BuiltTerminals(BuiltConfig(NoFiles), NoFiles)
    /\ tab_text = BuiltTabText(BuiltConfig(NoFiles))
    /\ dialog = << >>
    /\ last = Event("init", Nil, "-")
    /\ snap = <<>>

\* two more widgets may be created in a behaviour that keeps detached widgets
StaleCanCreate == next_id + 1 <= 2 + 2 * (MaxStaleCreate + 1)

StaleNext ==
    \/ StaleCanCreate /\ NewTab
    \/ (n_pages(S) = 1 => StaleCanCreate) /\ CloseTab
    \/ \E b \in Ids : (n_pages(S) = 1 => StaleCanCreate) /\ CloseButton(b)
    \/ ClosePanel
    \/ \E o \in Orientations : StaleCanCreate /\ Split(o)
    \/ \E d \in FocusDirection : Focus(d)
    \/ \E index \in 0..MaxSwitchIndex : TabSwitch(index)
    \/ \E t \in Ids : SessionExit(t)

StaleSpec == StaleInit /\ [][StaleNext]_vars

(***************************************************************************)
(* Reloads: the files change under the program, tabs and panes are made,   *)
(* and the reload_config chord is pressed.                                 *)
(***************************************************************************)

\* Number of widget-creating events a behaviour of reloads may hold.
MaxReloadCreate == 1

\* hex texts, as the sequences of their characters: three colours, and a
\* text of three digits
Dark == << "#", "1", "0", "1", "0", "1", "0" >>
Light == << "#", "e", "0", "e", "0", "e", "0" >>
Red == << "f", "f", "0", "0", "0", "0" >>
ShortHex == << "#", "f", "f", "f" >>

\* what a theme file may hold: nothing that parses, a theme of sixteen
\* colours, one of fifteen and one of seventeen
ThemeContents ==
    { << >>,
      << [background |-> Light, foreground |-> Dark, cursor |-> ShortHex,
          palette |-> [i \in 1..PaletteLen |-> Red]] >>,
      << [background |-> Red, foreground |-> Red, cursor |-> Light,
          palette |-> [i \in 1..(PaletteLen - 1) |-> Light]] >>,
      << [background |-> Red, foreground |-> Dark, cursor |-> Light,
          palette |-> [i \in 1..(PaletteLen + 1) |-> Light]] >> }

\* what the configuration file may hold of the fields the terminals take:
\* no file, or one of two tables
RawSettings ==
    { << >>,
      << [scrollback_lines |-> << 500 >>, font |-> << "Mono 10" >>,
          font_size |-> << 0 >>, tab_title |-> << >>,
          theme_file |-> << "theme.toml" >>] >>,
      << [scrollback_lines |-> << >>, font |-> << "Mono" >>,
          font_size |-> << 14 >>, tab_title |-> << << "s", "h" >> >>,
          theme_file |-> << >>] >> }

\* build_ui with or without --theme-file, over any files
ReloadInit ==
    /\ kind = Built.kind
    /\ parent = Built.parent
    /\ start_child = Built.start_child
    /\ end_child = Built.end_child
    /\ orientation = Built.orientation
    /\ box_children = Built.box_children
    /\ pages = Built.pages
    /\ current = Built.current
    /\ focus = Built.focus
    /\ open = Built.open
    /\ next_id = Built.next_id
    /\ tab_counter = Built.tab_counter
    /\ tab_label = Built.tab_label
    /\ config_file = NoRawKeys
    /\ keybindings = load_keybindings(NoRawKeys)
    /\ propagation = "-"
    /\ exited = {}
    /\ keep_detached = FALSE
    /\ \E o \in {<< >>, << "cli.toml" >>} : \E raw \in RawSettings :
       \E a \in ThemeContents :
          env = [ theme_override |-> o, config_toml |-> raw,
                  themes |-> [path \in ThemePaths |-> a] ]
    /\ config = BuiltConfig(env)
    /\ terminal_of = BuiltTerminals(config, env)
    /\ tab_text = BuiltTabText(config)
    /\ dialog = << >>
    /\ last = Event("init", Nil, "-")
    /\ snap = <<>>

\* the configuration file is written
WriteConfig(raw) ==
    /\ open
    /\ env' = [env EXCEPT !.config_toml = raw]
    /\ env' # env
    /\ last' = Event("write", Nil, "config")
    /\ snap' = <<>>
    /\ UNCHANGED << kind, parent, start_child, end_child, orientation, box_children,
                    pages, current, focus, open, next_id, tab_counter, tab_label,
                    config_file, keybindings, propagation, exited, keep_detached,
                    terminal_of, tab_text, dialog, config >>

\* a theme file is written
WriteTheme(path, contents) ==
    /\ open
    /\ env' = [env EXCEPT !.themes[path] = contents]
    /\ env' # env
    /\ last' = Event("write", Nil, "theme")
    /\ snap' = <<>>
    /\ UNCHANGED << kind, parent, start_child, end_child, orientation, box_children,
                    pages, current, focus, open, next_id, tab_counter, tab_label,
                    config_file, keybindings, propagation, exited, keep_detached,
                    terminal_of, tab_text, dialog, config >>

\* the reload_config chord (lines 293-305): reload_config_and_theme
Reload ==
    /\ open
    /\ config' = reloaded_config(env)
    /\ keybindings' = load_keybindings(config_file)
    /\ terminal_of' = apply_config_to_terminals(S, terminal_of, reloaded_config(env),
                                                reloaded_theme(env))
    /\ last' = Event("reload", Nil, IF reloaded_theme(env) # << >> THEN "theme" ELSE "none")
    /\ snap' = <<>>
    /\ UNCHANGED << kind, parent, start_child, end_child, orientation, box_children,
                    pages, current, focus, open, next_id, tab_counter, tab_label,
                    config_file, propagation, exited, keep_detached, tab_text,
                    dialog, env >>

\* the one theme file the program can read: the --theme-file argument, when
\* given, stands for the theme_file of every Config
ReadThemePath == IF env.theme_override # << >> THEN "cli.toml" ELSE "theme.toml"

\* two more widgets may be created in a behaviour of reloads
ReloadCanCreate == next_id + 1 <= 2 + 2 * (MaxReloadCreate + 1)

ReloadNext ==
    \/ ReloadCanCreate /\ NewTab
    \/ \E o \in Orientations : ReloadCanCreate /\ Split(o)
    \/ \E raw \in RawSettings : WriteConfig(raw)
    \/ \E contents \in ThemeContents : WriteTheme(ReadThemePath, contents)
    \/ Reload

ReloadSpec == ReloadInit /\ [][ReloadNext]_vars

(***************************************************************************)
(* Renames: the Rename Tab dialog is presented and, its Entry edited, it   *)
(* is answered.  The dialog is modal: while it is open no key and no click *)
(* reaches the window, and the sessions of the terminals can still end.    *)
(***************************************************************************)

\* the tabs a behaviour of renames may open after the first
MaxRenameCreate == 1
\* the longest text typed into the Entry
MaxTextLen == 2

\* the characters typed
Chars == { " ", "\t", "a" }

\* the texts typed
Texts == UNION { [1..n -> Chars] : n \in 0..MaxTextLen }

RenameCanCreate == next_id + 1 <= 2 + 2 * (MaxRenameCreate + 1)

\* the rename_tab chord (lines 224-227): rename_current_tab
RenameTab ==
    /\ open
    /\ dialog = << >>
    /\ dialog' = present_dialog(S, tab_text)
    /\ last' = Event("rename_tab", Nil, IF dialog' # << >> THEN "dialog" ELSE "none")
    /\ snap' = <<>>
    /\ UNCHANGED << kind, parent, start_child, end_child, orientation, box_children,
                    pages, current, focus, open, next_id, tab_counter, tab_label,
                    config_file, keybindings, propagation, exited, keep_detached,
                    terminal_of, tab_text, config, env >>

\* the dialog is answered with the text its Entry then holds (lines 429-438):
\* the handler runs and closes it
Response(response, text) ==
    /\ dialog # << >>
    /\ \E d \in {[dialog[1] EXCEPT !.entry = text]} :
          /\ tab_text' = connect_response(S, d, response, tab_text)
          /\ last' = Event("response", d.label, response)
          /\ snap' = << d >>
    /\ dialog' = << >>
    /\ UNCHANGED << kind, parent, start_child, end_child, orientation, box_children,
                    pages, current, focus, open, next_id, tab_counter, tab_label,
                    config_file, keybindings, propagation, exited, keep_detached,
                    terminal_of, config, env >>

RenameNext ==
    \/ dialog = << >> /\ RenameCanCreate /\ NewTab
    \/ dialog = << >> /\ (n_pages(S) = 1 => RenameCanCreate) /\ CloseTab
    \/ \E index \in 0..1 : dialog = << >> /\ TabSwitch(index)
    \/ RenameTab
    \/ \E response \in {"Ok", "Cancel"} : \E text \in Texts : Response(response, text)
    \/ \E t \in Ids : SessionExit(t)

RenameSpec == Init /\ [][RenameNext]_vars



(***************************************************************************)
(* Properties.                                                             *)
(***************************************************************************)

Terminals == {i \in Ids : kind[i] = "Scrolled"}
Paneds == {i \in Ids : kind[i] = "Paned"}

\* the page (Box) whose tree holds widget w, Nil when none does
PageOf(s, w) ==
    IF \E i \in 1..Len(s.pages) : IsAncestorOrSelf(s, s.pages[i], w)
    THEN s.pages[CHOOSE i \in 1..Len(s.pages) : IsAncestorOrSelf(s, s.pages[i], w)]
    ELSE Nil

RECURSIVE LeavesOf(_)
\* the terminals of a tree, from its start side to its end side
LeavesOf(sh) ==
    IF sh[1] = "Leaf" THEN << sh[2] >>
    ELSE IF sh[1] = "Split" THEN LeavesOf(sh[3]) \o LeavesOf(sh[4])
    ELSE << >>

\* the terminals of a page, from start to end
PageLeaves(s, b) == IF Len(s.box_children[b]) = 0 THEN << >>
                    ELSE LeavesOf(Shape(s, s.box_children[b][1]))

\* every link of widget w is what it was
SameWidget(w) ==
    /\ kind'[w] = kind[w]
    /\ parent'[w] = parent[w]
    /\ start_child'[w] = start_child[w]
    /\ end_child'[w] = end_child[w]
    /\ orientation'[w] = orientation[w]
    /\ box_children'[w] = box_children[w]

\* the sequence q with x in the place of y
Substitute(q, y, x) == [i \in DOMAIN q |-> IF q[i] = y THEN x ELSE q[i]]

\* C1 (well-formedness): after any sequence of events every Paned of the window
\* has a start child and an end child, two different widgets that are panes
\* or Paneds whose parent it is, and every page of the Notebook is a Box
\* whose tree holds at least one terminal.
C1_WellFormed ==
    /\ \A p \in Paneds :
          /\ start_child[p] # Nil /\ end_child[p] # Nil
          /\ start_child[p] # end_child[p]
          /\ kind[start_child[p]] \in {"Paned", "Scrolled"}
          /\ kind[end_child[p]] \in {"Paned", "Scrolled"}
          /\ parent[start_child[p]] = p /\ parent[end_child[p]] = p
    /\ \A i \in 1..Len(pages) :
          /\ kind[pages[i]] = "Box"
          /\ Len(PageLeaves(S, pages[i])) >= 1

\* a pane was closed out of a tree that still holds a Split inside a Split
C1_Witness ==
    /\ last.op \in {"close_panel", "session_exit"} /\ last.r = "collapse"
    /\ \E p \in Paneds : kind[parent[p]] = "Paned" /\ start_child[parent[p]] = p

\* C2 (split/close inverse): when a pane p is split and the pane the split
\* made is closed next, the layout is again the layout before the split,
\* terminal for terminal and slot for slot.
C2_SplitCloseInverse ==
    (last.op \in {"close_panel", "session_exit"} /\ snap # <<>>)
        => Layout(S) = snap

\* the new pane of a split was closed, in a tree of three panes where the
\* split pane was not the root
C2_Witness ==
    /\ last.op = "close_panel" /\ snap # <<>>
    /\ Cardinality(Paneds) >= 2
    /\ \E p \in Paneds : kind[parent[p]] = "Paned" /\ end_child[parent[p]] = p

\* C3 (one-level collapse): the close of pane L whose parent is the Paned P
\* takes exactly L and P out of the window; L's sibling keeps its tree and
\* takes P's place under P's parent; every other widget, the pages and the
\* current page stay as they were; every page's terminals keep their order,
\* without L.
C3_OneLevelCollapse ==
    [][ (last'.op \in {"close_panel", "session_exit"} /\ last'.r = "collapse") =>
        LET L == last'.x
            P == parent[L]
            sib == IF start_child[P] = L THEN end_child[P] ELSE start_child[P]
            gp == parent[P]
        IN /\ InWindow(S') = InWindow(S) \ {L, P}
           /\ Shape(S', sib) = Shape(S, sib)
           /\ parent'[sib] = gp
           /\ kind'[sib] = kind[sib] /\ orientation'[sib] = orientation[sib]
           /\ kind[gp] = "Paned" =>
                /\ start_child[gp] = P =>
                     start_child'[gp] = sib /\ end_child'[gp] = end_child[gp]
                /\ end_child[gp] = P =>
                     end_child'[gp] = sib /\ start_child'[gp] = start_child[gp]
           /\ kind[gp] = "Box" =>
                box_children'[gp] = Substitute(box_children[gp], P, sib)
           /\ kind'[gp] = kind[gp] /\ parent'[gp] = parent[gp]
           /\ orientation'[gp] = orientation[gp]
           /\ \A w \in InWindow(S) \ {L, P, sib, gp} : SameWidget(w)
           /\ pages' = pages /\ current' = current
           /\ \A i \in 1..Len(pages) :
                PageLeaves(S', pages[i]) = SeqRemove(PageLeaves(S, pages[i]), L)
      ]_vars

\* a pane was closed whose sibling was a Split and whose parent was the end
\* child of another Split
C3_Witness ==
    /\ last.op \in {"close_panel", "session_exit"} /\ last.r = "collapse"
    /\ \E p \in Paneds : kind[parent[p]] = "Paned" /\ end_child[parent[p]] = p
    /\ Cardinality(Terminals) >= 3

\* C4 (split shape): a split with orientation o while pane L holds the focus
\* puts a new Paned of orientation o where L was, with L as its start child
\* and the new pane as its end child; the new pane holds the focus; every
\* other widget, the pages and the current page stay as they were.
C4_SplitShape ==
    [][ (last'.op = "split" /\ find_scrolled_ancestor(S, focus) # Nil) =>
        LET L == find_scrolled_ancestor(S, focus)
            n == next_id
            q == next_id + 1
            up == parent[L]
        IN /\ last'.x = L
           /\ kind'[q] = "Paned" /\ orientation'[q] = last'.r
           /\ kind'[n] = "Scrolled"
           /\ start_child'[q] = L /\ end_child'[q] = n
           /\ parent'[L] = q /\ parent'[n] = q /\ parent'[q] = up
           /\ kind[up] = "Paned" =>
                /\ start_child[up] = L =>
                     start_child'[up] = q /\ end_child'[up] = end_child[up]
                /\ end_child[up] = L =>
                     end_child'[up] = q /\ start_child'[up] = start_child[up]
           /\ kind[up] = "Box" =>
                box_children'[up] = Substitute(box_children[up], L, q)
           /\ kind'[up] = kind[up] /\ parent'[up] = parent[up]
           /\ orientation'[up] = orientation[up]
           /\ kind'[L] = kind[L]
           /\ focus' = n
           /\ InWindow(S') = InWindow(S) \cup {n, q}
           /\ \A w \in InWindow(S) \ {L, up} : SameWidget(w)
           /\ pages' = pages /\ current' = current
           /\ \A i \in 1..Len(pages) :
                pages[i] # PageOf(S, L) =>
                    BoxShape(S', pages[i]) = BoxShape(S, pages[i])
      ]_vars

\* a focused pane that was the end child of a Split has been split, with a
\* second tab open
C4_Witness ==
    /\ last.op = "split" /\ kind[last.x] = "Scrolled"
    /\ kind[parent[parent[last.x]]] = "Paned"
    /\ end_child[parent[parent[last.x]]] = parent[last.x]
    /\ focus = end_child[parent[last.x]]
    /\ Len(pages) >= 2

\* C5 (split only addresses a Leaf): after a split event the widget that was
\* split, now the start child of the new Split, is a pane, never an existing
\* Split such as the whole tree of the tab.
C5_SplitAddressesLeaf ==
    last.op = "split" =>
        /\ last.x # Nil
        /\ kind[last.x] = "Scrolled"
        /\ kind[parent[last.x]] = "Paned" /\ start_child[parent[last.x]] = last.x

\* C6 (close cascades to the owning tab): when close-panel or a session exit
\* targets the only pane of its tab and other tabs exist, the tab taken out
\* of the Notebook is the tab holding that pane, every other tab keeps its
\* tree, and no pane whose session has exited is left in the window.
C6_CloseCascadesToOwningTab ==
    [][ (last'.op \in {"close_panel", "session_exit"} /\ last'.r = "tab") =>
        LET b == PageOf(S, last'.x)
        IN /\ pages' = SeqRemove(pages, b)
           /\ \A i \in 1..Len(pages) :
                pages[i] # b => BoxShape(S', pages[i]) = BoxShape(S, pages[i])
           /\ exited' = {}
      ]_vars

(***************************************************************************)
(* Navigation, stated from the tree instead of the upward walk.            *)
(***************************************************************************)

\* the Paneds above widget w, w itself left out
SplitsAbove(s, w) ==
    {p \in Ids : s.kind[p] = "Paned" /\ p # w /\ IsAncestorOrSelf(s, p, w)}

\* the Paneds above w whose orientation is the axis of the direction
AxisSplitsAbove(s, w, direction) ==
    {p \in SplitsAbove(s, w) : s.orientation[p] = target_orientation(direction)}

\* the one of a set of Paneds above the same widget that is lowest in the tree
Lowest(s, ps) ==
    IF ps = {} THEN Nil
    ELSE CHOOSE p \in ps : \A q \in ps : IsAncestorOrSelf(s, q, p)

\* the child of Paned p the direction departs from, and the one it arrives at
DepartingChild(s, p, direction) ==
    IF direction \in {"Right", "Down"} THEN s.start_child[p] ELSE s.end_child[p]

ArrivalChild(s, p, direction) ==
    IF direction \in {"Right", "Down"} THEN s.end_child[p] ELSE s.start_child[p]

\* widget w lies under the child of p the direction departs from
OnDepartingSide(s, p, w, direction) ==
    /\ DepartingChild(s, p, direction) # Nil
    /\ IsAncestorOrSelf(s, DepartingChild(s, p, direction), w)

RECURSIVE first_leaf(_, _)
\* the pane reached from w by taking the start child at every Paned
first_leaf(s, w) ==
    IF w = Nil THEN Nil
    ELSE IF s.kind[w] = "Scrolled" THEN w
    ELSE IF s.kind[w] = "Paned" THEN first_leaf(s, s.start_child[w])
    ELSE Nil

\* the Paneds of the direction's axis above w on whose departing side w lies
DepartableSplits(s, w, direction) ==
    {p \in AxisSplitsAbove(s, w, direction) : OnDepartingSide(s, p, w, direction)}

\* panes a and b have the same nearest Paned of orientation o above them
SharedNearest(s, a, b, direction) ==
    /\ AxisSplitsAbove(s, a, direction) # {}
    /\ AxisSplitsAbove(s, b, direction) # {}
    /\ Lowest(s, AxisSplitsAbove(s, a, direction))
         = Lowest(s, AxisSplitsAbove(s, b, direction))

\* C7 as stated (nearest-enclosing-split navigation): navigate answers from
\* the nearest Paned of the direction's axis above the pane only; when the
\* pane is not on the side of that Paned the direction departs from, the
\* answer is None and no Paned further up is consulted.
C7_NearestOnly ==
    \A l \in Terminals : \A d \in FocusDirection :
        LET p == Lowest(S, AxisSplitsAbove(S, l, d))
        IN find_adjacent_terminal(S, l, d) =
              IF p # Nil /\ OnDepartingSide(S, p, l, d)
              THEN first_leaf(S, ArrivalChild(S, p, d))
              ELSE Nil

\* C7 as amended: navigate answers from the nearest Paned of the direction's
\* axis above the pane on whose departing side the pane lies, passing over
\* the Paneds of that axis where it lies on the arrival side; the answer is
\* None only when no Paned above the pane qualifies.
C7_NearestDepartable ==
    \A l \in Terminals : \A d \in FocusDirection :
        LET p == Lowest(S, DepartableSplits(S, l, d))
        IN find_adjacent_terminal(S, l, d) =
              IF p # Nil THEN first_leaf(S, ArrivalChild(S, p, d)) ELSE Nil

\* a focus chord moved the focus from a pane that lies on the arrival side of
\* its nearest Paned of the axis, so a Paned further up gave the answer
C7_Witness ==
    /\ last.op = "focus" /\ last.x # Nil /\ focus # last.x
    /\ focus = find_adjacent_terminal(S, last.x, last.r)
    /\ AxisSplitsAbove(S, last.x, last.r) # {}
    /\ ~OnDepartingSide(S, Lowest(S, AxisSplitsAbove(S, last.x, last.r)),
                        last.x, last.r)

\* C8 as stated (navigation symmetry): for panes a and b with the same
\* nearest Horizontal Paned above them, navigate(a, Right) = b gives
\* navigate(b, Left) = a; likewise Down and Up for a Vertical Paned.
C8_Symmetry ==
    \A a \in Terminals : \A b \in Terminals :
        /\ (SharedNearest(S, a, b, "Right")
              /\ find_adjacent_terminal(S, a, "Right") = b)
            => find_adjacent_terminal(S, b, "Left") = a
        /\ (SharedNearest(S, a, b, "Down")
              /\ find_adjacent_terminal(S, a, "Down") = b)
            => find_adjacent_terminal(S, b, "Up") = a

\* C8 as amended: the symmetry holds when a is moreover the pane reached
\* from the start child of the shared Paned by taking the start child at
\* every Paned.
C8_SymmetryFromFirstLeaf ==
    \A a \in Terminals : \A b \in Terminals :
        /\ (SharedNearest(S, a, b, "Right")
              /\ find_adjacent_terminal(S, a, "Right") = b
              /\ a = first_leaf(S, start_child[Lowest(S, AxisSplitsAbove(S, a, "Right"))]))
            => find_adjacent_terminal(S, b, "Left") = a
        /\ (SharedNearest(S, a, b, "Down")
              /\ find_adjacent_terminal(S, a, "Down") = b
              /\ a = first_leaf(S, start_child[Lowest(S, AxisSplitsAbove(S, a, "Down"))]))
            => find_adjacent_terminal(S, b, "Up") = a

\* the focus went Right from pane a to pane b over their shared nearest
\* Horizontal Paned, whose start side is itself a Split with a as first pane
C8_Witness ==
    /\ last.op = "focus" /\ last.r = "Right" /\ last.x # Nil /\ focus # last.x
    /\ focus \in Terminals
    /\ SharedNearest(S, last.x, focus, "Right")
    /\ find_adjacent_terminal(S, last.x, "Right") = focus
    /\ kind[start_child[Lowest(S, AxisSplitsAbove(S, last.x, "Right"))]] = "Paned"
    /\ last.x = first_leaf(S, start_child[Lowest(S, AxisSplitsAbove(S, last.x, "Right"))])

\* the layout [a|b|c] of two horizontal splits: a beside a Split of b and c
ThreeInARow(a, b, c) ==
    /\ kind[parent[a]] = "Paned" /\ orientation[parent[a]] = Horizontal
    /\ kind[parent[parent[a]]] = "Box"
    /\ Shape(S, parent[a]) =
          << "Split", Horizontal, << "Leaf", a >>,
             << "Split", Horizontal, << "Leaf", b >>, << "Leaf", c >> >> >>

\* C9 (None without a matching axis): when no Paned above a pane has the
\* orientation of the direction's axis, navigate is None, and a focus chord
\* in that direction leaves the focus and the widgets as they were; in the
\* layout [a|b|c] of two horizontal splits navigate(a, Left) is None,
\* navigate(b, Right) is c and navigate(c, Left) is b.
C9_NoneWithoutAxis ==
    [][ /\ \A l \in Terminals : \A d \in FocusDirection :
              AxisSplitsAbove(S, l, d) = {} => find_adjacent_terminal(S, l, d) = Nil
        /\ \A a \in Terminals : \A b \in Terminals : \A c \in Terminals :
              ThreeInARow(a, b, c) =>
                 /\ find_adjacent_terminal(S, a, "Left") = Nil
                 /\ find_adjacent_terminal(S, b, "Right") = c
                 /\ find_adjacent_terminal(S, c, "Left") = b
        /\ (last'.op = "focus" /\ last'.x # Nil
              /\ AxisSplitsAbove(S, last'.x, last'.r) = {}) => S' = S
      ]_vars

\* a focus chord was pressed in a pane under a Paned of the other axis only
C9_Witness ==
    /\ last.op = "focus" /\ last.x # Nil
    /\ kind[last.x] = "Scrolled"
    /\ AxisSplitsAbove(S, last.x, last.r) = {}
    /\ SplitsAbove(S, last.x) # {}
    /\ focus = last.x

\* C10 (the target is the first leaf of the opposite side): when navigate
\* from pane l gives pane b, b is a pane of l's tab other than l, and b is
\* reached from the arrival-side child of a Paned of the direction's axis,
\* on whose departing side l lies, by taking the start child at every Paned.
C10_TargetIsFirstLeaf ==
    \A l \in Terminals : \A d \in FocusDirection :
        LET b == find_adjacent_terminal(S, l, d)
        IN b # Nil =>
             /\ b \in Terminals
             /\ b # l
             /\ PageOf(S, l) # Nil /\ PageOf(S, b) = PageOf(S, l)
             /\ \E p \in DepartableSplits(S, l, d) :
                   /\ ~OnDepartingSide(S, p, b, d)
                   /\ IsAncestorOrSelf(S, ArrivalChild(S, p, d), b)
                   /\ b = first_leaf(S, ArrivalChild(S, p, d))

\* a focus chord moved the focus into a side that is itself a Split
C10_Witness ==
    /\ last.op = "focus" /\ last.x # Nil /\ focus # last.x
    /\ focus = find_adjacent_terminal(S, last.x, last.r)
    /\ \E p \in DepartableSplits(S, last.x, last.r) :
          /\ kind[ArrivalChild(S, p, last.r)] = "Paned"
          /\ focus = first_leaf(S, ArrivalChild(S, p, last.r))
    /\ Len(pages) >= 2

(***************************************************************************)
(* The tab set.                                                            *)
(***************************************************************************)

\* C11 (new tab becomes active): a new-tab event appends one tab holding a
\* single pane at the end of the pages, and the current page is that tab,
\* the last one.
C11_NewTabBecomesActive ==
    [][ last'.op = "new_tab" =>
        /\ pages' = Append(pages, next_id + 1)
        /\ BoxShape(S', next_id + 1) = << << "Leaf", next_id >> >>
        /\ current' = Len(pages') - 1
      ]_vars

\* C12 (the tab set is never empty while the window is open): after every
\* event the window is closed, or the Notebook has a page and its current
\* page index is one of its pages'.
C12_NeverEmptyWhileOpen ==
    open => /\ Len(pages) >= 1
            /\ current \in 0..(Len(pages) - 1)

\* the only tab was closed by its chord or its button and a new one made
C12_Witness ==
    /\ last.op \in {"close_tab", "close_button"} /\ last.r = "recreate"
    /\ open /\ Len(pages) = 1
    /\ tab_label[pages[1]] >= 2

\* an event takes the only tab away
LastTabRemoved ==
    \/ last'.op \in {"close_tab", "close_button"} /\ last'.r = "recreate"
    \/ last'.op \in {"close_panel", "session_exit"} /\ last'.r = "window"

\* C13 as stated (one last-tab policy): whichever operation takes the only
\* tab away, the window is closed exactly when the close-tab chord would
\* close it in that state, and a tab is made anew exactly when the chord
\* would make one.
C13_OnePolicy ==
    [][ LastTabRemoved =>
           /\ open' = close_current_tab(S).open
           /\ Len(pages') = Len(close_current_tab(S).pages)
           /\ tab_counter' = close_current_tab(S).tab_counter
      ]_vars

\* C13 as amended: the close-tab chord and the tab's close button replace the
\* only tab by a new default tab and leave the window open; close-panel and
\* the session exit of the only pane of the only tab close the window.
C13_TwoPolicies ==
    [][ /\ (last'.op \in {"close_tab", "close_button"} /\ last'.r = "recreate") =>
              /\ open'
              /\ pages' = << next_id + 1 >>
              /\ BoxShape(S', next_id + 1) = << << "Leaf", next_id >> >>
              /\ current' = 0
              /\ tab_counter' = tab_counter + 1
        /\ (last'.op \in {"close_panel", "session_exit"} /\ last'.r = "window") =>
              /\ ~open'
              /\ tab_counter' = tab_counter
      ]_vars

\* the window was closed by the close of the only pane of the only tab, a tab
\* that the close-tab chord or the close button had made anew
C13_Witness ==
    /\ last.op \in {"close_panel", "session_exit"} /\ last.r = "window"
    /\ ~open
    /\ tab_label[pages[1]] >= 2

\* C14 (the tab counter is never reused): every event leaves the counter or
\* adds one to it for the one tab it creates; the new tab's label carries the
\* counter's value before the event; the counter never goes down; the tabs
\* in the Notebook carry different values, all below the counter.
C14_CounterNeverReused ==
    [][ /\ tab_counter' >= tab_counter
        /\ \A b \in Ids :
              (kind[b] # "Box" /\ kind'[b] = "Box") =>
                  /\ tab_label'[b] = tab_counter
                  /\ tab_counter' = tab_counter + 1
        /\ tab_counter' # tab_counter => \E b \in Ids : kind[b] # "Box" /\ kind'[b] = "Box"
        /\ \A b \in Ids : kind[b] = "Box" /\ kind'[b] = "Box" => tab_label'[b] = tab_label[b]
        /\ \A i \in 1..Len(pages') : tab_label'[pages'[i]] < tab_counter'
        /\ \A i \in 1..Len(pages') : \A j \in 1..Len(pages') :
              i # j => tab_label'[pages'[i]] # tab_label'[pages'[j]]
      ]_vars

\* a tab was made anew after the only tab was closed, and one more tab after it
C14_Witness ==
    /\ last.op = "new_tab"
    /\ Len(pages) = 2
    /\ tab_label[pages[1]] >= 2
    /\ tab_label[pages[2]] = tab_label[pages[1]] + 1

\* C20 (switch bounds): a tab-switch to an index that is not below the number
\* of tabs changes nothing; a tab-switch to an index below it makes that
\* index the current page and changes no tree.
C20_SwitchBounds ==
    [][ last'.op = "tab_switch" =>
           /\ last'.r = "out" => S' = S
           /\ last'.r = "in" =>
                 /\ current' = last'.x
                 /\ pages' = pages
                 /\ Layout(S') = Layout(S)
      ]_vars

\* a tab-switch went from the last of three tabs to the first
C20_Witness ==
    /\ last.op = "tab_switch" /\ last.r = "in" /\ last.x = 0
    /\ Len(pages) >= 3
    /\ current = 0
    /\ PageOf(S, focus) = pages[1]

(***************************************************************************)
(* Key chords.                                                             *)
(***************************************************************************)

\* the binding the table holds for a field of RawKeyBindings
BindingOf(kb, f) ==
    IF IndexIn(TabFields, f) # 0 THEN kb.tab_switch[IndexIn(TabFields, f)]
    ELSE kb.named[f]

\* two keys are the same key or the two cases of one letter
SameKeyUpToCase(a, b) ==
    \/ a = b
    \/ \E i \in DOMAIN UpperKeys : {a, b} = {UpperKeys[i], LowerKeys[i]}

\* the four modifiers a chord can ask for
ChordModifiers == {CONTROL_MASK, SHIFT_MASK, ALT_MASK, SUPER_MASK}

\* the event has the chord's key up to letter case and, of the four
\* modifiers, exactly the chord's
ChordFits(binding, key, state) ==
    /\ SameKeyUpToCase(key, binding.key)
    /\ \A mod \in ChordModifiers : mod \in state <=> mod \in binding.modifiers

\* C15 (exact modifier matching): a binding matches a key event exactly when
\* the event's key is the chord's key up to letter case and the event holds,
\* of Ctrl, Shift, Alt and Super, the chord's modifiers and no other; the
\* lock bit never changes the answer.
C15_ExactModifiers ==
    last.op = "matches" =>
        /\ \A f \in RawFields :
              f \in Range(last.r)
                 <=> ChordFits(BindingOf(keybindings, f), last.x[1], last.x[2])
        /\ \A f \in RawFields :
              matches(BindingOf(keybindings, f), last.x[1], last.x[2])
                 <=> matches(BindingOf(keybindings, f), last.x[1],
                             (last.x[2] \cup {LOCK_MASK}) \ (last.x[2] \cap {LOCK_MASK}))

\* new_tab's chord Ctrl+Shift+T was matched by the key t with the lock bit
\* set, and not a chord of Ctrl alone
C15_Witness ==
    /\ last.op = "matches"
    /\ last.x = << "t", {CONTROL_MASK, SHIFT_MASK, LOCK_MASK} >>
    /\ "new_tab" \in Range(last.r)
    /\ "close_panel" \notin Range(last.r)

\* a part of a chord text that names a modifier
ModifierWord(token) ==
    to_ascii_lowercase(token) \in
        {"ctrl", "control", "shift", "alt", "option", "super", "meta", "win"}

\* a part of a chord text that names a key, as written or in upper case
KeyWord(token) ==
    /\ token # "" /\ ~ModifierWord(token)
    /\ (token \in Keys \/ to_ascii_uppercase(token) \in Keys)

\* no part of the chord text names a key
Unresolved(text) == \A i \in DOMAIN text : ~KeyWord(text[i])

\* the field's text in the configuration file names no key
UnresolvedField(f) == config_file[f] # << >> /\ Unresolved(config_file[f][1])

SpecifiedChord(text) ==
    LET k == CHOOSE i \in DOMAIN text :
                 KeyWord(text[i]) /\ \A j \in DOMAIN text : KeyWord(text[j]) => j <= i
        word(mod) == IF mod = CONTROL_MASK THEN {"ctrl", "control"}
                     ELSE IF mod = SHIFT_MASK THEN {"shift"}
                     ELSE IF mod = ALT_MASK THEN {"alt", "option"}
                     ELSE {"super", "meta", "win"}
    IN [key |-> IF text[k] \in Keys THEN text[k] ELSE to_ascii_uppercase(text[k]),
        modifiers |-> {mod \in ChordModifiers :
                          \E i \in DOMAIN text : to_ascii_lowercase(text[i]) \in word(mod)}]

\* the chord default_keybindings gives a field
DefaultChord(f) ==
    IF IndexIn(TabFields, f) # 0
    THEN [key |-> Digit(IndexIn(TabFields, f)), modifiers |-> {ALT_MASK}]
    ELSE SpecifiedChord(DefaultText[f])

C17_FirstMatchWins ==
    [][ last'.op = "key" =>
          /\ last'.x = << >> => last'.r = "none"
          /\ last'.x # << >> => last'.r \in {Head(last'.x), "none"}
      ]_vars

\* the commands whose match is soft, and the commands that find a pane done
FocusCommands == {"focus_left", "focus_right", "focus_up", "focus_down"}
DirectionOf(c) ==
    IF c = "focus_left" THEN "Left" ELSE IF c = "focus_right" THEN "Right"
    ELSE IF c = "focus_up" THEN "Up" ELSE "Down"

\* C18 (soft match): when the only command whose chord matches the event is
\* a focus command and no pane holds the focus or navigate gives None, or
\* is close_panel and no pane holds the focus, the handler returns Proceed
\* and changes nothing.
C18_SoftMatch ==
    [][ (last'.op = "key" /\ Len(last'.x) = 1) =>
          /\ (last'.x[1] \in FocusCommands
                /\ (focus = Nil
                      \/ find_adjacent_terminal(S, focus, DirectionOf(last'.x[1])) = Nil))
              => (propagation' = "Proceed" /\ S' = S /\ last'.r = "none")
          /\ (last'.x[1] = "close_panel" /\ focus = Nil)
              => (propagation' = "Proceed" /\ S' = S /\ last'.r = "none")
      ]_vars

\* focus_left's chord alone matched in a pane that has a pane beside it but
\* none to its left, and the event went on
C18_Witness ==
    /\ last.op = "key" /\ last.x = << "focus_left" >>
    /\ propagation = "Proceed"
    /\ focus # Nil /\ kind[parent[focus]] = "Paned"

\* the commands of the handler that are neither focus commands nor close_panel
HardCommands == RawFields \ (FocusCommands \cup {"close_panel"})

\* C19 as stated (hard matches always consume): when the chord of a command
\* other than the focus commands and close_panel matches the event, the
\* handler returns Stop.
C19_HardAlwaysConsume ==
    [][ last'.op = "key" =>
          ((\E i \in DOMAIN last'.x : last'.x[i] \in HardCommands)
              => propagation' = "Stop")
      ]_vars

\* the commands whose branch returns Stop whatever the state
AlwaysStop ==
    {"new_tab", "close_tab", "rename_tab", "split_vertical", "split_horizontal",
     "reload_config", "show_keybindings"}

\* C19 as amended: a chord match of new-tab, close-tab, rename-tab, the two
\* splits, reload and show-keybindings always consumes the event; a match
\* of copy or paste consumes it when a terminal holds the focus; a match of
\* tab-switch consumes it when the index of the first matching tab-switch
\* binding is below the number of tabs; when only copy, paste or tab-switch
\* chords match, no terminal holds the focus and that index is not below
\* the number of tabs, the event is not consumed and nothing changes.
C19_HardConsumeWhenDone ==
    [][ last'.op = "key" =>
          LET matched == Range(last'.x)
              tabs == {n \in DOMAIN TabFields : TabFields[n] \in matched}
              first == CHOOSE n \in tabs : \A k \in tabs : n <= k
          IN /\ matched \cap AlwaysStop # {} => propagation' = "Stop"
             /\ (matched \cap {"copy", "paste"} # {} /\ focus # Nil)
                   => propagation' = "Stop"
             /\ (tabs # {} /\ first - 1 < Len(pages)) => propagation' = "Stop"
             /\ (/\ matched # {}
                 /\ matched \subseteq ({"copy", "paste"} \cup Range(TabFields))
                 /\ matched \cap {"copy", "paste"} # {} => focus = Nil
                 /\ tabs # {} => first - 1 >= Len(pages))
                   => (propagation' = "Proceed" /\ S' = S /\ last'.r = "none")
      ]_vars

\* a tab-switch chord matched with its index beyond the tabs, and the event
\* went on
C19_Witness ==
    /\ last.op = "key" /\ last.x = << "tab_2" >>
    /\ propagation = "Proceed"
    /\ Len(pages) = 1

(***************************************************************************)
(* Focus across tab switches and closes.                                   *)
(***************************************************************************)

\* C21 (switch restores focus), for the tab that is active when the chord is
\* pressed: that tab was last active in the state before, so the leaf
\* recorded for it is the pane holding the focus, and after the in-range
\* switch to it that pane still holds the focus.
C21_SwitchRestoresFocus ==
    [][ (/\ last'.op = "tab_switch" /\ last'.r = "in" /\ last'.x = current
         /\ focus # Nil /\ PageOf(S, focus) = pages[current + 1])
           => focus' = focus
      ]_vars

\* C22 (a focused leaf survives close): after close-panel or a session exit
\* collapsed a Paned of the active tab, a pane of the active tab holds the
\* focus.
C22_FocusSurvivesClose ==
    [][ (/\ last'.op \in {"close_panel", "session_exit"}
         /\ last'.r = "collapse"
         /\ current >= 0 /\ PageOf(S, last'.x) = pages[current + 1])
           => /\ focus' # Nil
              /\ current' >= 0
              /\ PageOf(S', focus') = pages'[current' + 1]
      ]_vars

\* C23 (stale leaf references do not corrupt): a session-exit notification
\* for a pane that is in no tab's tree (it was removed, or its tab was
\* closed) changes no tab, no tree, not the active index and not the focus,
\* and the window stays open.
C23_StaleExitChangesNothing ==
    [][ (last'.op = "session_exit" /\ PageOf(S, last'.x) = Nil) => S' = S ]_vars

\* the session of a pane of a closed tab, still the child of its Box, exited
\* while the window was open with another tab
C23_Witness ==
    /\ last.op = "session_exit" /\ last.r = "none"
    /\ PageOf(S, last.x) = Nil
    /\ kind[last.x] = "Scrolled" /\ last.x \in exited
    /\ parent[last.x] # Nil /\ kind[parent[last.x]] = "Box"
    /\ open /\ Len(pages) >= 1

(***************************************************************************)
(* Reload and themes.                                                      *)
(***************************************************************************)

\* the panes of all the tabs
AllPageLeaves == UNION { Range(PageLeaves(S, pages[i])) : i \in 1..Len(pages) }

\* the theme file a reload reads holds a theme of sixteen colours
ValidThemeOnDisk ==
    LET path == IF env.theme_override # << >> THEN env.theme_override
                ELSE IF env.config_toml # << >> THEN env.config_toml[1].theme_file
                ELSE << >>
    IN /\ path # << >>
       /\ env.themes[path[1]] # << >>
       /\ Len(env.themes[path[1]][1].palette) = PaletteLen

\* C24 (reload keeps the layout): a reload leaves the tabs, the active
\* index, the label of every tab, the tree of every tab and the focus as
\* they were; the terminal of every pane of every tab has the scrollback and
\* the font of the configuration read, and, when the theme file read holds a
\* theme of sixteen colours, that theme's colours.
C24_ReloadKeepsLayout ==
    [][ last'.op = "reload" =>
          /\ S' = S
          /\ tab_text' = tab_text
          /\ Layout(S') = Layout(S)
          /\ \A l \in AllPageLeaves :
                /\ terminal_of'[l].scrollback_lines = config'.scrollback_lines
                /\ terminal_of'[l].font.family = from_string(config'.font).family
                /\ terminal_of'[l].font.size =
                      IF config'.font_size > 0 THEN config'.font_size * SCALE
                      ELSE from_string(config'.font).size
                /\ ValidThemeOnDisk =>
                      LET raw == env.themes[config'.theme_file[1]][1]
                      IN /\ terminal_of'[l].background = rgba(raw.background)
                         /\ terminal_of'[l].foreground = rgba(raw.foreground)
                         /\ terminal_of'[l].cursor = rgba(raw.cursor)
                         /\ \A i \in 1..PaletteLen :
                               terminal_of'[l].palette[i] = rgba(raw.palette[i])
      ]_vars

\* a reload read a theme of sixteen colours and a changed configuration with
\* two tabs open, and the pane of the tab that is not active took them
C24_Witness ==
    /\ last.op = "reload" /\ last.r = "theme"
    /\ Len(pages) = 2
    /\ \E l \in Range(PageLeaves(S, pages[1])) :
          /\ current # 0
          /\ terminal_of[l].scrollback_lines = 500
          /\ terminal_of[l].background = << 224, 224, 224 >>

\* the theme file a reload reads holds a theme whose palette has not sixteen
\* colours
RefusedThemeOnDisk ==
    LET path == IF env.theme_override # << >> THEN env.theme_override
                ELSE IF env.config_toml # << >> THEN env.config_toml[1].theme_file
                ELSE << >>
    IN /\ path # << >>
       /\ env.themes[path[1]] # << >>
       /\ Len(env.themes[path[1]][1].palette) # PaletteLen

\* C25 (all-or-nothing theme): a reload that reads a theme whose palette has
\* not sixteen colours leaves the background, the foreground, the cursor
\* colour and the palette of every pane's terminal as they were.
C25_RefusedThemeKeepsColours ==
    [][ (last'.op = "reload" /\ RefusedThemeOnDisk) =>
          \A l \in AllPageLeaves :
              /\ terminal_of'[l].background = terminal_of[l].background
              /\ terminal_of'[l].foreground = terminal_of[l].foreground
              /\ terminal_of'[l].cursor = terminal_of[l].cursor
              /\ terminal_of'[l].palette = terminal_of[l].palette
      ]_vars

\* a reload read a theme of fifteen colours while the terminals had the
\* colours of a theme applied before, and they still have them
C25_Witness ==
    /\ last.op = "reload" /\ last.r = "none"
    /\ RefusedThemeOnDisk
    /\ Len(env.themes[ReadThemePath][1].palette) = PaletteLen - 1
    /\ \E l \in AllPageLeaves : terminal_of[l].background = << 224, 224, 224 >>

(***************************************************************************)
(* Renames.                                                                *)
(***************************************************************************)

\* C26 (rename with blank text): when the rename dialog is confirmed with a
\* text that is empty once its whitespace is trimmed, the title of the tab,
\* the title of every other tab, the tabs and every tree are as before.
C26_BlankRenameChangesNothing ==
    [][ (last'.op = "response" /\ last'.r = "Ok" /\ trim(snap'[1].entry) = << >>)
        => /\ tab_text' = tab_text
           /\ S' = S
           /\ Layout(S') = Layout(S)
      ]_vars

\* the dialog of the second of two tabs, renamed before to "a", was confirmed
\* with a text of whitespace alone
C26_Witness ==
    /\ last.op = "response" /\ last.r = "Ok"
    /\ snap # << >> /\ snap[1].entry = << " ", "\t" >>
    /\ Len(pages) = 2
    /\ snap[1].label = pages[2]
    /\ tab_text[pages[2]] = << "a" >>

\* the tab whose Label the answered dialog held is still in the notebook
RenamedTabRemains == \E i \in 1..Len(pages) : pages[i] = snap'[1].label

\* C27 (rename is verbatim): when the rename dialog is confirmed with a text
\* that is not empty once trimmed, the title of the tab becomes the entered
\* text, character for character, its leading and trailing whitespace
\* included.
C27_RenameVerbatim ==
    [][ (last'.op = "response" /\ last'.r = "Ok" /\ trim(snap'[1].entry) # << >>
           /\ RenamedTabRemains)
        => tab_text'[snap'[1].label] = snap'[1].entry
      ]_vars

\* C27 as amended: the title of the tab, when it is still in the notebook,
\* becomes the entered text without its leading and trailing whitespace, at
\* every length; the titles of the other tabs, the tabs and every tree are as
\* before.
C27_RenameTrimmed ==
    [][ (last'.op = "response" /\ last'.r = "Ok" /\ trim(snap'[1].entry) # << >>
           /\ RenamedTabRemains)
        => LET title == tab_text'[snap'[1].label]
               text == snap'[1].entry
           IN /\ Len(title) > 0
              /\ title[1] \notin White_Space
              /\ title[Len(title)] \notin White_Space
              /\ \E i \in 0..Len(text) : \E j \in 0..Len(text) :
                    /\ i + Len(title) + j = Len(text)
                    /\ title = SubSeq(text, i + 1, i + Len(title))
                    /\ \A k \in (1..i) \cup ((Len(text) - j + 1)..Len(text)) :
                          text[k] \in White_Space
              /\ \A b \in Ids \ {snap'[1].label} : tab_text'[b] = tab_text[b]
              /\ S' = S
      ]_vars

\* the dialog of the first of two tabs was confirmed with "a" followed by a
\* space, and the tab is titled "a"
C27_Witness ==
    /\ last.op = "response" /\ last.r = "Ok"
    /\ snap # << >> /\ snap[1].entry = << "a", " " >>
    /\ Len(pages) = 2
    /\ snap[1].label = pages[1]
    /\ tab_text[pages[1]] = << "a" >>
    /\ tab_text[pages[2]] # << "a" >>

(***************************************************************************)
(* Chord parsing.                                                          *)
(***************************************************************************)

\* the modifier a part of a chord text names
MaskOfWord(token) ==
    IF to_ascii_lowercase(token) \in {"ctrl", "control"} THEN CONTROL_MASK
    ELSE IF to_ascii_lowercase(token) = "shift" THEN SHIFT_MASK
    ELSE IF to_ascii_lowercase(token) \in {"alt", "option"} THEN ALT_MASK
    ELSE SUPER_MASK

\* the key a part of a chord text names, as written or else in upper case
KeyOfWord(token) == IF token \in Keys THEN token ELSE to_ascii_uppercase(token)

\* the positions of the parts of a chord text that name a key
KeyPositions(text) == { i \in DOMAIN text : KeyWord(text[i]) }

\* the greatest of a set of numbers that is not empty
Greatest(ns) == CHOOSE n \in ns : \A m \in ns : m <= n

\* the chord text without its part at position i
WithoutPart(text, i) == SubSeq(text, 1, i - 1) \o SubSeq(text, i + 1, Len(text))

\* the orders of n parts
Orders(n) == { p \in [1..n -> 1..n] : \A i, j \in 1..n : p[i] = p[j] => i = j }

\* C28 (chord parsing): the modifiers of the parsed chord are those named by
\* the modifier parts of the text, in whatever order and however often they
\* are written; its key is the one named by the last part that names a key;
\* a part that is empty or names nothing changes nothing; a text with no
\* part that names a key gives no chord.
C28_ParseOrderAndLastKey ==
    last.op = "parsed" =>
        LET text == last.x
            chord == last.r
        IN /\ chord = << >> <=> KeyPositions(text) = {}
           /\ chord # << >> =>
                 /\ chord[1].modifiers =
                       { MaskOfWord(text[i]) : i \in { j \in DOMAIN text : ModifierWord(text[j]) } }
                 /\ chord[1].key = KeyOfWord(text[Greatest(KeyPositions(text))])
           /\ \A p \in Orders(Len(text)) :
                 LET other == parse_keybinding([i \in 1..Len(text) |-> text[p[i]]])
                 IN /\ other = << >> <=> chord = << >>
                    /\ chord # << >> => other[1].modifiers = chord[1].modifiers
           /\ \A i \in DOMAIN text :
                 /\ ModifierWord(text[i]) =>
                       parse_keybinding(text \o << text[i] >>) = chord
                 /\ (~ModifierWord(text[i]) /\ ~KeyWord(text[i])) =>
                       parse_keybinding(WithoutPart(text, i)) = chord

\* the text "Left+SHIFT+t", with two parts that name a key around a
\* modifier, was parsed to Shift with t
C28_Witness ==
    /\ last.op = "parsed"
    /\ last.x = << "Left", "SHIFT", "t" >>
    /\ last.r = << [key |-> "t", modifiers |-> {SHIFT_MASK}] >>

\* two chord texts of as many parts, each part the other's up to letter case
SameUpToLetterCase(a, b) ==
    /\ Len(a) = Len(b)
    /\ \A i \in DOMAIN a : to_ascii_lowercase(a[i]) = to_ascii_lowercase(b[i])

\* the key event is matched by the parsed chord, when there is one
ChordMatches(chord, key, state) == chord # << >> /\ matches(chord[1], key, state)

\* C29 (chord parsing is case-insensitive): two chord texts that differ only
\* in the letter case of their parts parse to chords that match the same key
\* events.
C29_CaseInsensitive ==
    last.op = "parsed" =>
        \A other \in ChordTexts :
            SameUpToLetterCase(last.x, other) =>
                \A key \in Keys : \A state \in SUBSET ModifierType :
                    ChordMatches(parse_keybinding(other), key, state)
                        <=> ChordMatches(last.r, key, state)
(***************************************************************************)
(* The active tab after a close.                                           *)
(***************************************************************************)

\* C30 (active tab after a tab is closed): when an event removes the tab at
\* index i and tabs remain, the current page afterwards is the one at
\* i - 1, or at 0 when i is 0, and never past the last page, whichever tab
\* was current before; this holds too for a click on the close button of a
\* tab that is not the current one.
C30_ActiveAfterClose ==
    [][ \A i \in 0..(Len(pages) - 1) :
          (Len(pages) >= 2 /\ open' /\ pages' = WithoutPart(pages, i + 1))
          => LET before == IF i > 0 THEN i - 1 ELSE 0
             IN current' = IF before > Len(pages') - 1 THEN Len(pages') - 1 ELSE before
      ]_vars

\* the close button of the last of three tabs was clicked while another tab
\* was current, and the current page, the second of the two left, is a
\* different tab than before
C30_Witness ==
    /\ last.op = "close_button" /\ last.r = "other_moved"
    /\ Len(pages) = 2
    /\ last.x > pages[2]
    /\ current = 1
(***************************************************************************)
(* The focus and the active tab.                                           *)
(***************************************************************************)

\* C31 (focus stays in the active tab): after every event, while the window
\* is open, the pane that holds the focus, if there is one, is in the tree
\* of the current page.
C31_FocusInActiveTab ==
    (open /\ focus # Nil) => PageOf(S, focus) = nth_page(S, current)
(***************************************************************************)
(* The theme file of the command line.                                     *)
(***************************************************************************)

\* C32 (the command-line theme override persists): when the program was
\* started with a --theme-file argument, the theme_file of the Config in
\* force is that argument after startup and after every reload, whatever
\* the configuration file holds.
C32_ThemeOverridePersists ==
    env.theme_override # << >> => config.theme_file = env.theme_override

\* a reload read a configuration file that names another theme file, and
\* the Config in force names the one of the command line
C32_Witness ==
    /\ last.op = "reload"
    /\ env.theme_override = << "cli.toml" >>
    /\ env.config_toml # << >>
    /\ env.config_toml[1].theme_file = << "theme.toml" >>
    /\ config.scrollback_lines = 500
    /\ config.theme_file = << "cli.toml" >>
====
